---- MODULE Spec2Model ----
(***************************************************************************)
(* A model of reqtify (github.com/thewug/reqtify): the request builder,    *)
(* the argument stringifier, the body/URL computation and the dispatch     *)
(* pipeline ReqtifierImpl.Do.                                              *)
(*                                                                         *)
(* Go strings are sequences of one-character strings, so that formatting,  *)
(* escaping and parsing are computed and not assumed.                      *)
(***************************************************************************)
EXTENDS Integers, Sequences, FiniteSets, TLC

VARIABLES
    \* RequestImpl
    URLPath, Verb, QueryParams, FormParams, AutoParams, FormFiles, Headers,
    BasicUser, BasicPassword, Cookies, ForceMultipart, Response, body,
    \* ReqtifierImpl (the client)
    LastChance, AgentName,
    \* attachment sources handed to FileArg: the sources closed and the
    \* sources read to their end so far
    closed, drained,
    \* one Do call: its position, the message the transport saw, what the
    \* last-chance hook and the transport answered, what Do returned, the
    \* decoder invocations in their order, the number of transport calls
    pc, msg, hookResult, answer, ret, unmarshalled, transportCalls,
    \* a panic of the calling goroutine
    panicked,
    \* the last builder operation and the buckets before it
    lastOp, pre,
    \* the arguments of the argument operations of SpecArg
    inKey, inVal, inDef,
    \* the Header calls made on the request, in their order
    headerCalls,
    \* concurrent Do calls on one client: each call's own request and
    \* position, the client's RateLimiter (a time.Ticker), and the transport
    \* double in Examine mode with the goroutine that observes it
    calls, ticker, examiner,
    \* one multipartRequestBody, and what its methods did and reported
    mp, mpHist

bucketVars == <<QueryParams, FormParams, AutoParams>>
reqVars    == <<URLPath, Verb, FormFiles, Headers, BasicUser, BasicPassword,
                Cookies, ForceMultipart, Response, body>>
clientVars == <<LastChance, AgentName>>
pipeVars   == <<closed, drained, pc, msg, hookResult, answer, ret, unmarshalled, transportCalls>>
inVars     == <<inKey, inVal, inDef>>
paceVars   == <<calls, ticker, examiner>>
mpVars     == <<mp, mpHist>>
otherVars  == <<inVars, paceVars, mpVars>>

vars == <<URLPath, Verb, QueryParams, FormParams, AutoParams, FormFiles, Headers,
          BasicUser, BasicPassword, Cookies, ForceMultipart, Response, body,
          LastChance, AgentName, closed, drained, pc, msg, hookResult, answer, ret,
          unmarshalled,
          transportCalls, panicked, lastOp, pre, inKey, inVal, inDef,
          headerCalls, calls, ticker, examiner, mp, mpHist>>

----------------------------------------------------------------------------
(* Bounds of the model *)

\* values per bucket operation sequence in SpecArg
MaxArgOps == 2

----------------------------------------------------------------------------
(* strconv: the formatting functions stringify calls *)

Digit(d) == <<"0", "1", "2", "3", "4", "5", "6", "7", "8", "9">>[d + 1]

RECURSIVE FormatUint(_)
FormatUint(n) ==
    IF n < 10 THEN <<Digit(n)>>
    ELSE FormatUint(n \div 10) \o <<Digit(n % 10)>>

\* strconv.FormatInt(x, 10)
FormatInt(n) == IF n < 0 THEN <<"-">> \o FormatUint(-n) ELSE FormatUint(n)

\* strconv.Itoa(x) is FormatInt(int64(x), 10)
Itoa(n) == FormatInt(n)

\* strconv.FormatFloat(x, 'f', -1, bits) of the float h/2 (floats of the model
\* are the multiples of one half, which float32 and float64 both hold exactly):
\* the shortest decimal that reads back as x, without exponent
FormatFloat(h) ==
    LET a == IF h < 0 THEN -h ELSE h
        sign == IF h < 0 THEN <<"-">> ELSE << >>
    IN  IF a % 2 = 0 THEN sign \o FormatUint(a \div 2)
        ELSE sign \o FormatUint(a \div 2) \o <<".", "5">>

\* strconv.FormatBool(x)
FormatBool(b) == IF b THEN <<"t", "r", "u", "e">> ELSE <<"f", "a", "l", "s", "e">>

\* string(x) of a rune x: the one-character string of that code point
RuneString(c) == <<c>>

----------------------------------------------------------------------------
(* interface{} values: the dynamic type (kind, ptr), the address of a       *)
(* pointer (0 is nil) and the value (of a pointer: the value it points to)  *)

Kinds == {"string", "int", "int64", "float32", "float64", "rune", "bool"}

NilValue == [kind |-> "nil", ptr |-> FALSE, addr |-> 0, val |-> 0]

Val(k, v) == [kind |-> k, ptr |-> FALSE, addr |-> 0, val |-> v]

Ptr(k, a, v) == [kind |-> k, ptr |-> TRUE, addr |-> a, val |-> v]

\* the zero value of a kind, what a nil pointer of the model carries as val
Zero(k) ==
    CASE k = "string" -> << >>
      [] k = "rune"   -> "0"
      [] k = "bool"   -> FALSE
      [] OTHER        -> 0

\* sample values of each recognized kind
Samples(k) ==
    CASE k = "string"  -> {<<"3">>, <<"t", "r", "u", "e">>}
      [] k = "int"     -> {3, -12}
      [] k = "int64"   -> {3}
      [] k = "float32" -> {6, 3}
      [] k = "float64" -> {3}
      [] k = "rune"    -> {"3"}
      [] k = "bool"    -> {TRUE}

PlainValues == UNION {{Val(k, v) : v \in Samples(k)} : k \in Kinds}

NilPointers == {Ptr(k, 0, Zero(k)) : k \in Kinds}

\* two distinct addresses per kind; for int both hold the same number
Pointers ==
    {Ptr(k, 1, CHOOSE v \in Samples(k) : TRUE) : k \in Kinds}
        \cup {Ptr("int", 2, CHOOSE v \in Samples("int") : TRUE)}

\* a non-nil value with a String() method, and a value of no supported kind
StringerValues == {Val("stringer", <<"3">>)}
OtherValues    == {Val("other", 0)}

ArgValues == PlainValues \cup NilPointers \cup Pointers \cup StringerValues
                 \cup OtherValues \cup {NilValue}

Supported(v) == v.kind \in Kinds \cup {"stringer", "nil"}

\* Go's == on two interface values: same dynamic type and equal value;
\* pointers are equal when they are the same pointer
IfaceEq(a, b) ==
    /\ a.kind = b.kind
    /\ a.ptr = b.ptr
    /\ IF a.ptr THEN a.addr = b.addr ELSE a.val = b.val

\* Go's == of a string with an interface value: the interface holds a string
\* of the same content
StrEqIface(s, d) == d.kind = "string" /\ ~d.ptr /\ d.val = s

----------------------------------------------------------------------------
(* stringify *)

Absent     == [str |-> << >>, present |-> FALSE, panic |-> FALSE]
Present(s) == [str |-> s, present |-> TRUE, panic |-> FALSE]
Panic      == [str |-> << >>, present |-> FALSE, panic |-> TRUE]

stringify(i) ==
    IF i.kind = "nil" THEN Absent
    ELSE CASE i.kind = "string" /\ ~i.ptr  -> Present(i.val)
           [] i.kind = "string" /\ i.ptr   ->
                IF i.addr = 0 THEN Absent ELSE Present(i.val)
           [] i.kind = "int" /\ ~i.ptr     -> Present(Itoa(i.val))
           [] i.kind = "int" /\ i.ptr      ->
                IF i.addr = 0 THEN Absent ELSE Present(Itoa(i.val))
           [] i.kind = "int64" /\ ~i.ptr   -> Present(FormatInt(i.val))
           [] i.kind = "int64" /\ i.ptr    ->
                IF i.addr = 0 THEN Absent ELSE Present(FormatInt(i.val))
           [] i.kind = "float32" /\ ~i.ptr -> Present(FormatFloat(i.val))
           [] i.kind = "float32" /\ i.ptr  ->
                IF i.addr = 0 THEN Absent ELSE Present(FormatFloat(i.val))
           [] i.kind = "float64" /\ ~i.ptr -> Present(FormatFloat(i.val))
           [] i.kind = "float64" /\ i.ptr  ->
                IF i.addr = 0 THEN Absent ELSE Present(FormatFloat(i.val))
           [] i.kind = "rune" /\ ~i.ptr    -> Present(RuneString(i.val))
           [] i.kind = "rune" /\ i.ptr     ->
                IF i.addr = 0 THEN Absent ELSE Present(RuneString(i.val))
           [] i.kind = "bool" /\ ~i.ptr    -> Present(FormatBool(i.val))
           [] i.kind = "bool" /\ i.ptr     ->
                IF i.addr = 0 THEN Absent ELSE Present(FormatBool(i.val))
           [] i.kind = "stringer"          -> Present(i.val)
           [] OTHER                        -> Panic

----------------------------------------------------------------------------
(* url.Values: a map from key to a non-empty sequence of values *)

EmptyValues == [k \in {} |-> << >>]

\* url.Values.Add
Add(values, key, str) ==
    IF key \in DOMAIN values
    THEN [values EXCEPT ![key] = Append(@, str)]
    ELSE [k \in DOMAIN values \cup {key} |->
              IF k = key THEN <<str>> ELSE values[k]]

\* the number of values a bucket holds
RECURSIVE Count(_)
Count(values) ==
    IF DOMAIN values = {} THEN 0
    ELSE LET k == CHOOSE x \in DOMAIN values : TRUE
         IN  Len(values[k]) + Count([j \in DOMAIN values \ {k} |-> values[j]])

\* argDefaultHelper without the comparison of the converted string with the
\* default
argDefaultHelperNoStrCompare(key, value, def, values) ==
    IF ~IfaceEq(value, def)
    THEN LET r == stringify(value)
         IN  IF r.panic THEN [values |-> values, panic |-> TRUE]
             ELSE IF r.present
             THEN [values |-> Add(values, key, r.str), panic |-> FALSE]
             ELSE [values |-> values, panic |-> FALSE]
    ELSE [values |-> values, panic |-> FALSE]

\* argDefaultHelper adding the converted string whether or not it is present
argDefaultHelperIgnoresPresent(key, value, def, values) ==
    IF ~IfaceEq(value, def)
    THEN LET r == stringify(value)
         IN  IF r.panic THEN [values |-> values, panic |-> TRUE]
             ELSE IF ~StrEqIface(r.str, def)
             THEN [values |-> Add(values, key, r.str), panic |-> FALSE]
             ELSE [values |-> values, panic |-> FALSE]
    ELSE [values |-> values, panic |-> FALSE]

\* argDefaultHelper: the bucket afterwards, or a panic
argDefaultHelper(key, value, def, values) ==
    IF ~IfaceEq(value, def)
    THEN LET r == stringify(value)
         IN  IF r.panic THEN [values |-> values, panic |-> TRUE]
             ELSE IF r.present /\ ~StrEqIface(r.str, def)
             THEN [values |-> Add(values, key, r.str), panic |-> FALSE]
             ELSE [values |-> values, panic |-> FALSE]
    ELSE [values |-> values, panic |-> FALSE]

Buckets == [query |-> QueryParams, form |-> FormParams, auto |-> AutoParams]

\* the common part of the six argument operations
ArgOp(name, key, value, def, values, bucket) ==
    LET r == argDefaultHelper(key, value, def, values)
    IN  /\ ~panicked
        /\ pc = "build"
        /\ QueryParams' = IF bucket = "query" THEN r.values ELSE QueryParams
        /\ FormParams'  = IF bucket = "form" THEN r.values ELSE FormParams
        /\ AutoParams'  = IF bucket = "auto" THEN r.values ELSE AutoParams
        /\ panicked' = r.panic
        /\ lastOp' = name
        /\ pre' = Buckets
        /\ UNCHANGED <<reqVars, clientVars, pipeVars, otherVars, headerCalls>>

\* Arg adding to the form bucket
ArgIntoForm(key, value) == ArgOp("Arg", key, value, NilValue, FormParams, "form")

Arg(key, value)    == ArgOp("Arg", key, value, NilValue, AutoParams, "auto")
URLArg(key, value) == ArgOp("URLArg", key, value, NilValue, QueryParams, "query")
FormArg(key, value) == ArgOp("FormArg", key, value, NilValue, FormParams, "form")

ArgDefault(key, value, def) ==
    ArgOp("ArgDefault", key, value, def, AutoParams, "auto")
URLArgDefault(key, value, def) ==
    ArgOp("URLArgDefault", key, value, def, QueryParams, "query")
FormArgDefault(key, value, def) ==
    ArgOp("FormArgDefault", key, value, def, FormParams, "form")

----------------------------------------------------------------------------
(* Strings: byte order, url.QueryEscape, url.Values.Encode                  *)
(* The double quote and the backslash are the characters Quote, Backslash.  *)

Quote     == "QUOTE"
Backslash == "BACKSLASH"

Lower == <<"a", "b", "c", "d", "e", "f", "g", "h", "i", "j", "k", "l", "m",
           "n", "o", "p", "q", "r", "s", "t", "u", "v", "w", "x", "y", "z">>
Upper == <<"A", "B", "C", "D", "E", "F", "G", "H", "I", "J", "K", "L", "M",
           "N", "O", "P", "Q", "R", "S", "T", "U", "V", "W", "X", "Y", "Z">>
Digits == <<"0", "1", "2", "3", "4", "5", "6", "7", "8", "9">>

\* the characters of the model in byte order
ByteOrder ==
    <<" ", Quote, "%", "&", "+", "-", ".", "/">> \o Digits \o <<":", "=", "?">>
        \o Upper \o <<Backslash, "_">> \o Lower \o <<"~">>

Range(seq) == {seq[i] : i \in 1..Len(seq)}

Code(c) == CHOOSE i \in 1..Len(ByteOrder) : ByteOrder[i] = c

\* a < b for Go strings: byte-wise lexicographic
RECURSIVE StrLess(_, _)
StrLess(a, b) ==
    IF b = << >> THEN FALSE
    ELSE IF a = << >> THEN TRUE
    ELSE IF Head(a) = Head(b) THEN StrLess(Tail(a), Tail(b))
    ELSE Code(Head(a)) < Code(Head(b))

\* sort.Strings of the keys of a map
RECURSIVE SortKeys(_)
SortKeys(S) ==
    IF S = {} THEN << >>
    ELSE LET m == CHOOSE x \in S : \A y \in S \ {x} : StrLess(x, y)
         IN  <<m>> \o SortKeys(S \ {m})

\* the two hexadecimal digits of a character url.QueryEscape escapes
Hex(c) ==
    CASE c = Quote     -> <<"2", "2">>
      [] c = "%"       -> <<"2", "5">>
      [] c = "&"       -> <<"2", "6">>
      [] c = "+"       -> <<"2", "B">>
      [] c = "/"       -> <<"2", "F">>
      [] c = ":"       -> <<"3", "A">>
      [] c = "="       -> <<"3", "D">>
      [] c = "?"       -> <<"3", "F">>
      [] c = Backslash -> <<"5", "C">>

Unreserved(c) ==
    c \in Range(Lower) \cup Range(Upper) \cup Range(Digits) \cup {"-", "_", ".", "~"}

\* url.QueryEscape escaping nothing
QueryEscapeNothing(s) == s

\* url.QueryEscape
RECURSIVE QueryEscape(_)
QueryEscape(s) ==
    IF s = << >> THEN << >>
    ELSE LET c == Head(s)
             e == IF Unreserved(c) THEN <<c>>
                  ELSE IF c = " " THEN <<"+">>
                  ELSE <<"%">> \o Hex(c)
         IN  e \o QueryEscape(Tail(s))

RECURSIVE EncodeVals(_, _, _)
EncodeVals(keyEscaped, vs, buf) ==
    IF vs = << >> THEN buf
    ELSE EncodeVals(keyEscaped, Tail(vs),
                    (IF Len(buf) > 0 THEN buf \o <<"&">> ELSE buf)
                        \o keyEscaped \o <<"=">> \o QueryEscape(Head(vs)))

RECURSIVE EncodeKeys(_, _, _)
EncodeKeys(values, keys, buf) ==
    IF keys = << >> THEN buf
    ELSE EncodeKeys(values, Tail(keys),
                    EncodeVals(QueryEscape(Head(keys)), values[Head(keys)], buf))

\* url.Values.Encode: "k=v&k=v..." sorted by key
Encode(values) == EncodeKeys(values, SortKeys(DOMAIN values), << >>)

----------------------------------------------------------------------------
(* RequestImpl.Target, RequestImpl.URL *)

Verbs == {"GET", "POST", "PUT", "PATCH", "DELETE", "HEAD"}

\* ReqtifierImpl.Root
Root == <<"h", ":">>

Target == Root \o URLPath

URL ==
    LET callURL == Target
        q == Encode(QueryParams)
        params == IF Cardinality(DOMAIN AutoParams) # 0 /\ Verb = "GET"
                  THEN (IF Len(q) # 0 THEN q \o <<"&">> ELSE q) \o Encode(AutoParams)
                  ELSE q
    IN  IF Len(params) # 0 THEN callURL \o <<"?">> \o params ELSE callURL

----------------------------------------------------------------------------
(* multipart.go: the multipart body is a list of readers.  A reader of the  *)
(* list is a buffer (src = 0, its bytes in data) or an attachment source.   *)
(* Literal texts of several bytes are single elements of a byte sequence.   *)

CRLF == "\r\n"

\* the 32 random letters of a boundary: what rand.Intn may produce
RandTokens == {"R1", "R2"}

Buffer(bytes) == [src |-> 0, data |-> bytes]
FromSource(s) == [src |-> s, data |-> << >>]

NewMultipart == [readerlist |-> << >>, boundary |-> << >>, effBoundary |-> << >>]

\* randomBoundary: "------multipart" + 32 random letters + "--", and the
\* boundary is effBoundary[2 : len-2]
randomBoundary(m, r) ==
    LET eff == <<"--", "----multipart", r, "--">>
    IN  [m EXCEPT !.effBoundary = eff, !.boundary = SubSeq(eff, 2, Len(eff) - 1)]

\* a boundary generated at every call that needs one
WithBoundaryAlways(m, r) == randomBoundary(m, r)

WithBoundary(m, r) == IF m.boundary = << >> THEN randomBoundary(m, r) ELSE m

\* boundaryReader: the reader over effBoundary[: len-2]
boundaryReader(m) == Buffer(SubSeq(m.effBoundary, 1, Len(m.effBoundary) - 1))

\* endBoundaryReader
endBoundaryReader(m) == Buffer(m.effBoundary)

\* escapeQuotes: backslash and double quote get a backslash in front
RECURSIVE escapeQuotes(_)
escapeQuotes(s) ==
    IF s = << >> THEN << >>
    ELSE (IF Head(s) \in {Backslash, Quote} THEN <<Backslash, Head(s)>>
          ELSE <<Head(s)>>) \o escapeQuotes(Tail(s))

ParamHeader(key) ==
    <<CRLF, "Content-Disposition: form-data; name=", Quote>> \o escapeQuotes(key)
        \o <<Quote, CRLF, CRLF>>

FileHeader(key, name) ==
    <<CRLF, "Content-Disposition: form-data; name=", Quote>> \o escapeQuotes(key)
        \o <<Quote, "; filename=", Quote>> \o escapeQuotes(name)
        \o <<Quote, CRLF, "Content-Type: application/octet-stream", CRLF, CRLF>>

addParam(m, r, key, value) ==
    LET b == WithBoundary(m, r)
    IN  [b EXCEPT !.readerlist = @ \o <<boundaryReader(b), Buffer(ParamHeader(key)),
                                        Buffer(value), Buffer(<<CRLF>>)>>]

addFileParam(m, r, key, file) ==
    LET b == WithBoundary(m, r)
    IN  [b EXCEPT !.readerlist = @ \o <<boundaryReader(b),
                                        Buffer(FileHeader(key, file.Name)),
                                        FromSource(file.Data), Buffer(<<CRLF>>)>>]

\* close without the closing boundary
closeWithoutBoundary(m, r) == WithBoundary(m, r)

close(m, r) ==
    LET b == WithBoundary(m, r)
    IN  [b EXCEPT !.readerlist = Append(@, endBoundaryReader(b))]

\* contentType: multipart/form-data; charset=utf-8; boundary="<boundary>"
contentType(m, r) ==
    <<"multipart/form-data; charset=utf-8; boundary=", Quote>>
        \o WithBoundary(m, r).boundary \o <<Quote>>

----------------------------------------------------------------------------
(* RequestImpl.GetBody *)

NilReader        == [kind |-> "nil", data |-> << >>, parts |-> << >>]
BytesReader(b)   == [kind |-> "bytes", data |-> b, parts |-> << >>]
\* multipartRequestBody.toReader: io.MultiReader(readerlist...)
toReader(m)      == [kind |-> "multi", data |-> << >>, parts |-> m.readerlist]

FormURLEncoded == <<"application/x-www-form-urlencoded">>

\* the orders in which a range over a map may visit its keys
RECURSIVE Orders(_)
Orders(S) ==
    IF S = {} THEN {<< >>}
    ELSE UNION {{<<k>> \o o : o \in Orders(S \ {k})} : k \in S}

RECURSIVE AddValues(_, _, _, _)
AddValues(m, r, key, vs) ==
    IF vs = << >> THEN m
    ELSE AddValues(addParam(m, r, key, Head(vs)), r, key, Tail(vs))

RECURSIVE AddBucket(_, _, _, _)
AddBucket(m, r, values, order) ==
    IF order = << >> THEN m
    ELSE AddBucket(AddValues(m, r, Head(order), values[Head(order)]), r, values,
                   Tail(order))

RECURSIVE AddFileList(_, _, _, _)
AddFileList(m, r, key, fs) ==
    IF fs = << >> THEN m
    ELSE AddFileList(addFileParam(m, r, key, Head(fs)), r, key, Tail(fs))

RECURSIVE AddFiles(_, _, _, _)
AddFiles(m, r, files, order) ==
    IF order = << >> THEN m
    ELSE AddFiles(AddFileList(m, r, Head(order), files[Head(order)]), r, files,
                  Tail(order))

\* the nondeterminism of one GetBody call: the random boundary and the orders
\* in which the three maps are ranged over
BodyChoices ==
    [r : RandTokens, form : Orders(DOMAIN FormParams),
     auto : Orders(DOMAIN AutoParams), files : Orders(DOMAIN FormFiles)]

\* GetBody with the auto bucket sent in the body of every verb
GetBodyAutoAlways(c) ==
    IF body.cached
    THEN IF body.isnil THEN [reader |-> NilReader, mimetype |-> << >>]
         ELSE [reader |-> BytesReader(body.body), mimetype |-> body.mimetype]
    ELSE IF ForceMultipart \/ Cardinality(DOMAIN FormFiles) # 0
    THEN LET m0 == AddBucket(NewMultipart, c.r, FormParams, c.form)
             m1 == AddBucket(m0, c.r, AutoParams, c.auto)
             m2 == AddFiles(m1, c.r, FormFiles, c.files)
             m3 == close(m2, c.r)
         IN  [reader |-> toReader(m3), mimetype |-> contentType(m3, c.r)]
    ELSE LET f == Encode(FormParams)
             params == IF Cardinality(DOMAIN AutoParams) # 0
                       THEN (IF Len(f) # 0 THEN f \o <<"&">> ELSE f)
                                \o Encode(AutoParams)
                       ELSE f
         IN  [reader |-> BytesReader(params), mimetype |-> FormURLEncoded]

\* GetBody deriving the body from the buckets whether or not one is cached
GetBodyIgnoringCache(c) ==
    IF ForceMultipart \/ Cardinality(DOMAIN FormFiles) # 0
    THEN LET m0 == AddBucket(NewMultipart, c.r, FormParams, c.form)
             m1 == IF Verb # "GET" THEN AddBucket(m0, c.r, AutoParams, c.auto)
                   ELSE m0
             m2 == AddFiles(m1, c.r, FormFiles, c.files)
             m3 == close(m2, c.r)
         IN  [reader |-> toReader(m3), mimetype |-> contentType(m3, c.r)]
    ELSE LET f == Encode(FormParams)
             params == IF Cardinality(DOMAIN AutoParams) # 0 /\ Verb # "GET"
                       THEN (IF Len(f) # 0 THEN f \o <<"&">> ELSE f)
                                \o Encode(AutoParams)
                       ELSE f
         IN  [reader |-> BytesReader(params), mimetype |-> FormURLEncoded]

GetBody(c) ==
    IF body.cached
    THEN IF body.isnil THEN [reader |-> NilReader, mimetype |-> << >>]
         ELSE [reader |-> BytesReader(body.body), mimetype |-> body.mimetype]
    ELSE IF ForceMultipart \/ Cardinality(DOMAIN FormFiles) # 0
    THEN LET m0 == AddBucket(NewMultipart, c.r, FormParams, c.form)
             m1 == IF Verb # "GET" THEN AddBucket(m0, c.r, AutoParams, c.auto)
                   ELSE m0
             m2 == AddFiles(m1, c.r, FormFiles, c.files)
             m3 == close(m2, c.r)
         IN  [reader |-> toReader(m3), mimetype |-> contentType(m3, c.r)]
    ELSE LET f == Encode(FormParams)
             params == IF Cardinality(DOMAIN AutoParams) # 0 /\ Verb # "GET"
                       THEN (IF Len(f) # 0 THEN f \o <<"&">> ELSE f)
                                \o Encode(AutoParams)
                       ELSE f
         IN  [reader |-> BytesReader(params), mimetype |-> FormURLEncoded]

----------------------------------------------------------------------------
(* Attachment sources: io.Readers that are read once *)

Sources == {1, 2}

\* source 1 is an io.ReadCloser (a file), source 2 is a plain io.Reader
Closable(s) == s = 1

SourceData(s) == IF s = 1 THEN <<"file one">> ELSE <<"file two">>

\* ioutil.ReadAll of a reader: the bytes, and the sources drained afterwards
RECURSIVE ReadParts(_, _, _)
ReadParts(parts, gone, acc) ==
    IF parts = << >> THEN [bytes |-> acc, drained |-> gone]
    ELSE LET p == Head(parts)
         IN  IF p.src = 0 THEN ReadParts(Tail(parts), gone, acc \o p.data)
             ELSE ReadParts(Tail(parts), gone \cup {p.src},
                            IF p.src \in gone THEN acc ELSE acc \o SourceData(p.src))

ReadAll(reader, gone) ==
    IF reader.kind = "multi" THEN ReadParts(reader.parts, gone, << >>)
    ELSE [bytes |-> reader.data, drained |-> gone]

----------------------------------------------------------------------------
(* The builder operations of RequestImpl *)

Building == ~panicked /\ pc = "build"

Method(v) ==
    /\ Building
    /\ Verb' = v
    /\ UNCHANGED <<URLPath, FormFiles, Headers, BasicUser, BasicPassword, Cookies,
                   ForceMultipart, Response, body>>
    /\ UNCHANGED <<bucketVars, clientVars, pipeVars, panicked, lastOp, pre, otherVars, headerCalls>>

Path(path) ==
    /\ Building
    /\ URLPath' = path
    /\ UNCHANGED <<Verb, FormFiles, Headers, BasicUser, BasicPassword, Cookies,
                   ForceMultipart, Response, body>>
    /\ UNCHANGED <<bucketVars, clientVars, pipeVars, panicked, lastOp, pre, otherVars, headerCalls>>

Multipart ==
    /\ Building
    /\ ForceMultipart' = TRUE
    /\ UNCHANGED <<URLPath, Verb, FormFiles, Headers, BasicUser, BasicPassword,
                   Cookies, Response, body>>
    /\ UNCHANGED <<bucketVars, clientVars, pipeVars, panicked, lastOp, pre, otherVars, headerCalls>>

FileArg(key, filename, data) ==
    /\ Building
    /\ FormFiles' = Add(FormFiles, key, [Name |-> filename, Data |-> data])
    /\ UNCHANGED <<URLPath, Verb, Headers, BasicUser, BasicPassword, Cookies,
                   ForceMultipart, Response, body>>
    /\ UNCHANGED <<bucketVars, clientVars, pipeVars, panicked, lastOp, pre, otherVars, headerCalls>>

\* strings.ToLower
ToLowerChar(c) ==
    IF c \in Range(Upper) THEN Lower[CHOOSE i \in 1..Len(Upper) : Upper[i] = c] ELSE c

ToUpperChar(c) ==
    IF c \in Range(Lower) THEN Upper[CHOOSE i \in 1..Len(Lower) : Lower[i] = c] ELSE c

ToLower(s) == [i \in 1..Len(s) |-> ToLowerChar(s[i])]

\* m[key] = value of a Go map
Put(m, key, value) ==
    [k \in DOMAIN m \cup {key} |-> IF k = key THEN value ELSE m[k]]

\* Header storing the key as the caller wrote it
HeaderKeepingCase(key, value) ==
    /\ Building
    /\ Headers' = Put(Headers, key, value)
    /\ headerCalls' = Append(headerCalls, [key |-> key, value |-> value])
    /\ UNCHANGED <<URLPath, Verb, FormFiles, BasicUser, BasicPassword, Cookies,
                   ForceMultipart, Response, body>>
    /\ UNCHANGED <<bucketVars, clientVars, pipeVars, panicked, lastOp, pre, otherVars>>

Header(key, value) ==
    /\ Building
    /\ Headers' = Put(Headers, ToLower(key), value)
    /\ headerCalls' = Append(headerCalls, [key |-> key, value |-> value])
    /\ UNCHANGED <<URLPath, Verb, FormFiles, BasicUser, BasicPassword, Cookies,
                   ForceMultipart, Response, body>>
    /\ UNCHANGED <<bucketVars, clientVars, pipeVars, panicked, lastOp, pre, otherVars>>

Cookie(c) ==
    /\ Building
    /\ Cookies' = Append(Cookies, c)
    /\ UNCHANGED <<URLPath, Verb, FormFiles, Headers, BasicUser, BasicPassword,
                   ForceMultipart, Response, body>>
    /\ UNCHANGED <<bucketVars, clientVars, pipeVars, panicked, lastOp, pre, otherVars, headerCalls>>

BasicAuthentication(user, password) ==
    /\ Building
    /\ BasicUser' = user
    /\ BasicPassword' = password
    /\ UNCHANGED <<URLPath, Verb, FormFiles, Headers, Cookies, ForceMultipart,
                   Response, body>>
    /\ UNCHANGED <<bucketVars, clientVars, pipeVars, panicked, lastOp, pre, otherVars, headerCalls>>

\* Into; JSONInto and XMLInto are Into(FromJSON(..)) and Into(FromXML(..))
Into(into) ==
    /\ Building
    /\ Response' = Append(Response, into)
    /\ UNCHANGED <<URLPath, Verb, FormFiles, Headers, BasicUser, BasicPassword,
                   Cookies, ForceMultipart, body>>
    /\ UNCHANGED <<bucketVars, clientVars, pipeVars, panicked, lastOp, pre, otherVars, headerCalls>>

JSONInto == Into("json")
XMLInto  == Into("xml")

\* DebugPrint taking the content type from a second call of GetBody
DebugPrintTwoBodies(c) ==
    LET g == GetBody(c)
        other == GetBody([c EXCEPT !.r = CHOOSE r \in RandTokens : r # c.r])
        read == ReadAll(g.reader, drained)
    IN  /\ Building
        /\ IF g.reader.kind = "nil"
           THEN /\ panicked' = TRUE
                /\ UNCHANGED <<body, drained>>
           ELSE /\ body' = [cached |-> TRUE, isnil |-> FALSE, body |-> read.bytes,
                            mimetype |-> other.mimetype]
                /\ drained' = read.drained
                /\ UNCHANGED panicked
        /\ UNCHANGED <<URLPath, Verb, FormFiles, Headers, BasicUser, BasicPassword,
                       Cookies, ForceMultipart, Response>>
        /\ UNCHANGED <<bucketVars, clientVars, closed, pc, msg, hookResult, answer,
                       ret, unmarshalled, transportCalls, lastOp, pre, otherVars, headerCalls>>

\* DebugPrint: GetBody, ioutil.ReadAll of its reader (a nil reader panics), and
\* the bytes are stored as the cached body
DebugPrint(c) ==
    LET g == GetBody(c)
        read == ReadAll(g.reader, drained)
    IN  /\ Building
        /\ IF g.reader.kind = "nil"
           THEN /\ panicked' = TRUE
                /\ UNCHANGED <<body, drained>>
           ELSE /\ body' = [cached |-> TRUE, isnil |-> FALSE, body |-> read.bytes,
                            mimetype |-> g.mimetype]
                /\ drained' = read.drained
                /\ UNCHANGED panicked
        /\ UNCHANGED <<URLPath, Verb, FormFiles, Headers, BasicUser, BasicPassword,
                       Cookies, ForceMultipart, Response>>
        /\ UNCHANGED <<bucketVars, clientVars, closed, pc, msg, hookResult, answer,
                       ret, unmarshalled, transportCalls, lastOp, pre, otherVars, headerCalls>>

----------------------------------------------------------------------------
(* The outbound message: http.NewRequest, Header.Add, SetBasicAuth,         *)
(* AddCookie                                                                *)

UserAgent     == <<"U", "s", "e", "r", "-", "A", "g", "e", "n", "t">>
ContentType   == <<"C", "o", "n", "t", "e", "n", "t", "-", "T", "y", "p", "e">>
Authorization == <<"Authorization">>
CookieHeader  == <<"Cookie">>

\* textproto.CanonicalMIMEHeaderKey: the first letter and every letter after a
\* hyphen in upper case, the other letters in lower case
CanonicalMIMEHeaderKey(s) ==
    [i \in 1..Len(s) |->
        IF i = 1 \/ s[i - 1] = "-" THEN ToUpperChar(s[i]) ELSE ToLowerChar(s[i])]

\* http.Header.Add and http.Header.Set
HeaderAdd(h, key, value) == Add(h, CanonicalMIMEHeaderKey(key), value)
HeaderSet(h, key, value) == Put(h, CanonicalMIMEHeaderKey(key), <<value>>)

RECURSIVE AddHeaders(_, _, _)
AddHeaders(h, headers, keys) ==
    IF keys = {} THEN h
    ELSE LET k == CHOOSE x \in keys : TRUE
         IN  AddHeaders(HeaderAdd(h, k, headers[k]), headers, keys \ {k})

\* Request.SetBasicAuth: "Basic " and the base64 of user:password
BasicAuth(user, password) ==
    <<"Basic ", "base64(">> \o user \o <<":">> \o password \o <<")">>

\* Request.AddCookie: appended to the Cookie header after "; "
RECURSIVE AddCookies(_, _)
AddCookies(h, cookies) ==
    IF cookies = << >> THEN h
    ELSE LET c == Head(cookies)
             h1 == IF CookieHeader \in DOMAIN h
                   THEN HeaderSet(h, CookieHeader, h[CookieHeader][1] \o <<"; ">> \o c)
                   ELSE HeaderSet(h, CookieHeader, c)
         IN  AddCookies(h1, Tail(cookies))

\* the message without the Content-Type of the body
OutboundMessageNoContentType(headers, c, gone) ==
    LET g == IF Verb # "GET" THEN GetBody(c)
             ELSE [reader |-> NilReader, mimetype |-> << >>]
        h1 == AddHeaders(EmptyValues, headers, DOMAIN headers)
        h3 == IF BasicUser # << >> \/ BasicPassword # << >>
              THEN HeaderSet(h1, Authorization, BasicAuth(BasicUser, BasicPassword))
              ELSE h1
    IN  [sent |-> TRUE, Method |-> Verb, URL |-> URL,
         hasBody |-> g.reader.kind # "nil",
         Body |-> ReadAll(g.reader, gone).bytes,
         Header |-> AddCookies(h3, Cookies)]

\* the message with the body computed for every verb
OutboundMessageBodyAlways(headers, c, gone) ==
    LET g == GetBody(c)
        h1 == AddHeaders(EmptyValues, headers, DOMAIN headers)
        h2 == IF g.mimetype # << >> THEN HeaderAdd(h1, ContentType, g.mimetype)
              ELSE h1
        h3 == IF BasicUser # << >> \/ BasicPassword # << >>
              THEN HeaderSet(h2, Authorization, BasicAuth(BasicUser, BasicPassword))
              ELSE h2
    IN  [sent |-> TRUE, Method |-> Verb, URL |-> URL,
         hasBody |-> g.reader.kind # "nil",
         Body |-> ReadAll(g.reader, gone).bytes,
         Header |-> AddCookies(h3, Cookies)]

\* ReqtifierImpl.Do up to the transport call: the message handed to the
\* transport, which reads its body (gone: the sources drained before)
OutboundMessage(headers, c, gone) ==
    LET g == IF Verb # "GET" THEN GetBody(c)
             ELSE [reader |-> NilReader, mimetype |-> << >>]
        h1 == AddHeaders(EmptyValues, headers, DOMAIN headers)
        h2 == IF g.mimetype # << >> THEN HeaderAdd(h1, ContentType, g.mimetype)
              ELSE h1
        h3 == IF BasicUser # << >> \/ BasicPassword # << >>
              THEN HeaderSet(h2, Authorization, BasicAuth(BasicUser, BasicPassword))
              ELSE h2
    IN  [sent |-> TRUE, Method |-> Verb, URL |-> URL,
         hasBody |-> g.reader.kind # "nil",
         Body |-> ReadAll(g.reader, gone).bytes,
         Header |-> AddCookies(h3, Cookies)]

\* the sources the transport drains when it reads the body
DrainedBySend(c, gone) ==
    IF Verb # "GET" THEN ReadAll(GetBody(c).reader, gone).drained ELSE gone

----------------------------------------------------------------------------
(* RequestImpl.Do and ReqtifierImpl.Do *)

\* http.NewRequest accepts a method that is a token: the six verbs are, a
\* method with a space in it is not
ValidMethod(v) == v \in Verbs

Return(hasResp, bytes, err) ==
    [returned |-> TRUE, hasResp |-> hasResp, body |-> bytes, err |-> err]

\* RequestImpl.Do sending the request whatever the last-chance hook answers
RequestDoIgnoringHook(hookErr, c) ==
    LET headers == IF Len(AgentName) # 0
                   THEN Put(Headers, ToLower(UserAgent), AgentName)
                   ELSE Headers
    IN  /\ Building
        /\ Headers' = headers
        /\ headerCalls' = IF Len(AgentName) # 0
                          THEN Append(headerCalls, [key |-> UserAgent, value |-> AgentName])
                          ELSE headerCalls
        /\ IF LastChance = "set"
           THEN hookResult' = hookErr
           ELSE hookErr = "nil" /\ UNCHANGED hookResult
        /\ IF ~ValidMethod(Verb)
           THEN /\ ret' = Return(FALSE, << >>, "net/http: invalid method")
                /\ pc' = "done"
                /\ UNCHANGED <<msg, transportCalls, drained>>
           ELSE /\ msg' = OutboundMessage(headers, c, drained)
                /\ drained' = DrainedBySend(c, drained)
                /\ transportCalls' = transportCalls + 1
                /\ pc' = "sent"
                /\ UNCHANGED ret
        /\ UNCHANGED <<URLPath, Verb, FormFiles, BasicUser, BasicPassword, Cookies,
                       ForceMultipart, Response, body>>
        /\ UNCHANGED <<bucketVars, clientVars, closed, answer, unmarshalled,
                       panicked, lastOp, pre, otherVars>>

\* RequestImpl.Do: the agent header, the last-chance hook (which answers
\* hookErr), then ReqtifierImpl.Do up to its call of HttpClient.Do
RequestDo(hookErr, c) ==
    LET headers == IF Len(AgentName) # 0
                   THEN Put(Headers, ToLower(UserAgent), AgentName)
                   ELSE Headers
    IN  /\ Building
        /\ Headers' = headers
        /\ headerCalls' = IF Len(AgentName) # 0
                          THEN Append(headerCalls, [key |-> UserAgent, value |-> AgentName])
                          ELSE headerCalls
        /\ IF LastChance = "set"
           THEN hookResult' = hookErr
           ELSE hookErr = "nil" /\ UNCHANGED hookResult
        /\ IF LastChance = "set" /\ hookErr # "nil"
           THEN /\ ret' = Return(FALSE, << >>, hookErr)
                /\ pc' = "done"
                /\ UNCHANGED <<msg, transportCalls, drained>>
           ELSE IF ~ValidMethod(Verb)
           THEN \* http.NewRequest fails: "if err != nil { return nil, err }"
                /\ ret' = Return(FALSE, << >>, "net/http: invalid method")
                /\ pc' = "done"
                /\ UNCHANGED <<msg, transportCalls, drained>>
           ELSE /\ msg' = OutboundMessage(headers, c, drained)
                /\ drained' = DrainedBySend(c, drained)
                /\ transportCalls' = transportCalls + 1
                /\ pc' = "sent"
                /\ UNCHANGED ret
        /\ UNCHANGED <<URLPath, Verb, FormFiles, BasicUser, BasicPassword, Cookies,
                       ForceMultipart, Response, body>>
        /\ UNCHANGED <<bucketVars, clientVars, closed, answer, unmarshalled,
                       panicked, lastOp, pre, otherVars>>

\* the attachments in the order the loops over FormFiles visit them
RECURSIVE FilesInOrder(_, _)
FilesInOrder(files, order) ==
    IF order = << >> THEN << >>
    ELSE files[Head(order)] \o FilesInOrder(files, Tail(order))

\* the closing loop: file.Data.(io.ReadCloser) panics at the first source that
\* is no io.ReadCloser; the sources before it are closed
RECURSIVE CloseFiles(_, _)
CloseFiles(files, done) ==
    IF files = << >> THEN [closed |-> done, panic |-> FALSE]
    ELSE IF ~Closable(Head(files).Data) THEN [closed |-> done, panic |-> TRUE]
    ELSE CloseFiles(Tail(files), done \cup {Head(files).Data})

\* response bodies a server may send, and the two built-in decoders
JsonBody == <<"{json}">>
XmlBody  == <<"<xml/>">>
JunkBody == <<"junk">>

\* JSONUnmarshaller.Unmarshal and XMLUnmarshaller.Unmarshal: the error
Unmarshal(decoder, bytes) ==
    IF decoder = "json"
    THEN (IF bytes = JsonBody THEN "nil" ELSE "json: syntax error")
    ELSE (IF bytes = XmlBody THEN "nil" ELSE "xml: syntax error")

\* the loop over req.Response stopping at the first decoder that fails
RECURSIVE UntilFailure(_, _)
UntilFailure(decoders, bytes) ==
    IF decoders = << >> THEN << >>
    ELSE LET e == Unmarshal(Head(decoders), bytes)
             call == [decoder |-> Head(decoders), bytes |-> bytes, err |-> e]
         IN  IF e # "nil" THEN <<call>>
             ELSE <<call>> \o UntilFailure(Tail(decoders), bytes)

UnmarshalledUntilFailure(decoders, bytes) == UntilFailure(decoders, bytes)

\* the loop over req.Response: every decoder is called with the bytes read
Unmarshalled(decoders, bytes) ==
    [i \in 1..Len(decoders) |->
        [decoder |-> decoders[i], bytes |-> bytes,
         err |-> Unmarshal(decoders[i], bytes)]]

\* the loop's err after the decoders ran: "if err != nil { err = e }"
RECURSIVE LoopErr(_, _, _)
LoopErr(decoders, bytes, err) ==
    IF decoders = << >> THEN err
    ELSE LoopErr(Tail(decoders), bytes,
                 IF err # "nil" THEN Unmarshal(Head(decoders), bytes) ELSE err)

\* ReqtifierImpl.Do from the return of HttpClient.Do (which answers a) to its
\* own return; order is the order of the loop over FormFiles
ReqtifierDoReturn(a, order) ==
    /\ ~panicked
    /\ pc = "sent"
    /\ answer' = a
    /\ IF a.err # "nil"
       THEN /\ ret' = Return(FALSE, << >>, a.err)
            /\ pc' = "done"
            /\ UNCHANGED <<closed, unmarshalled, panicked>>
       ELSE LET c == CloseFiles(FilesInOrder(FormFiles, order), closed)
            IN  /\ closed' = c.closed
                /\ IF c.panic
                   THEN /\ panicked' = TRUE
                        /\ pc' = "panic"
                        /\ UNCHANGED <<ret, unmarshalled>>
                   ELSE /\ UNCHANGED panicked
                        /\ pc' = "done"
                        /\ IF Len(Response) # 0
                           THEN IF a.readErr # "nil"
                                THEN /\ ret' = Return(FALSE, << >>, a.readErr)
                                     /\ UNCHANGED unmarshalled
                                ELSE \* the loop's err is the err declared by
                                     \* "body, err := ioutil.ReadAll" inside the
                                     \* if block; the function returns the outer
                                     \* err, the transport's
                                     LET inner == LoopErr(Response, a.body, a.readErr)
                                     IN  /\ unmarshalled' = Unmarshalled(Response, a.body)
                                         /\ ret' = Return(TRUE, a.body, a.err)
                           ELSE /\ ret' = Return(TRUE, a.body, a.err)
                                /\ UNCHANGED unmarshalled
    /\ UNCHANGED <<reqVars, bucketVars, clientVars, drained, msg, hookResult,
                   transportCalls, lastOp, pre, otherVars, headerCalls>>

\* mock.RequestMock.Do: the analyzer answers a (handler: an analyzer is set).
\* With decoders the body of the response is read, and not replaced, before
\* the response is returned
RequestMockDo(handler, a) ==
    LET bytes == IF a.hasResp THEN a.body ELSE << >>
        readErr == IF a.hasResp THEN a.readErr ELSE "nil"
    IN  /\ Building
        /\ pc' = "mock done"
        /\ IF ~handler
           THEN /\ ret' = Return(FALSE, << >>, "ErrNoHandler")
                /\ UNCHANGED <<answer, unmarshalled>>
           ELSE /\ answer' = a
                /\ IF Len(Response) # 0
                   THEN IF readErr # "nil"
                        THEN /\ ret' = Return(FALSE, << >>, readErr)
                             /\ UNCHANGED unmarshalled
                        ELSE /\ unmarshalled' = Unmarshalled(Response, bytes)
                             /\ ret' = Return(a.hasResp, << >>, a.err)
                   ELSE /\ ret' = Return(a.hasResp, bytes, a.err)
                        /\ UNCHANGED unmarshalled
        /\ UNCHANGED <<reqVars, bucketVars, clientVars, closed, drained, msg,
                       hookResult, transportCalls, panicked, lastOp, pre,
                       otherVars, headerCalls>>

----------------------------------------------------------------------------
(* ReqtifierImpl.New: the request after construction *)

\* RequestImpl.body: nil, or a cachedBody whose bytes may be nil
NoCachedBody == [cached |-> FALSE, isnil |-> TRUE, body |-> << >>, mimetype |-> << >>]

KeyA == <<"a">>
KeyB == <<"b">>

\* a cachedBody without bytes, as TestReqtifierImplDo gives to its GET request
EmptyBody == [cached |-> TRUE, isnil |-> TRUE, body |-> << >>, mimetype |-> << >>]

NewRequestWith(cache) ==
    /\ URLPath = <<"/", "t">>
    /\ Verb = "GET"
    /\ QueryParams = EmptyValues
    /\ FormParams = EmptyValues
    /\ AutoParams = EmptyValues
    /\ FormFiles = EmptyValues
    /\ Headers = EmptyValues
    /\ BasicUser = << >>
    /\ BasicPassword = << >>
    /\ Cookies = << >>
    /\ ForceMultipart = FALSE
    /\ Response = << >>
    /\ body = cache

NewRequest == NewRequestWith(NoCachedBody)

\* what Do returns: no response (nil) or the response with the body the
\* caller can read from it, and the error ("nil" for none)
NotReturned == [returned |-> FALSE, hasResp |-> FALSE, body |-> << >>, err |-> "nil"]

NoMessage ==
    [sent |-> FALSE, Method |-> "", URL |-> << >>, hasBody |-> FALSE,
     Body |-> << >>, Header |-> EmptyValues]

NoAnswer ==
    [given |-> FALSE, hasResp |-> FALSE, body |-> << >>, readErr |-> "nil",
     err |-> "nil"]

NoCall ==
    /\ closed = {}
    /\ drained = {}
    /\ pc = "build"
    /\ msg = NoMessage
    /\ hookResult = "not called"
    /\ answer = NoAnswer
    /\ ret = NotReturned
    /\ unmarshalled = << >>
    /\ transportCalls = 0
    /\ panicked = FALSE
    /\ lastOp = "New"
    /\ pre = [query |-> EmptyValues, form |-> EmptyValues, auto |-> EmptyValues]
    /\ headerCalls = << >>

\* no concurrent calls, no RateLimiter, no transport double
NoTicker   == [set |-> FALSE, C |-> << >>, delivered |-> 0]
NoExaminer ==
    [set |-> FALSE, pc |-> "receive", request |-> 0, requests |-> << >>,
     answers |-> << >>]

NoPace ==
    /\ calls = << >>
    /\ ticker = NoTicker
    /\ examiner = NoExaminer

\* no multipartRequestBody outside of GetBody
NoMultipart ==
    /\ mp = NewMultipart
    /\ mpHist = [calls |-> 0, generated |-> 0, reported |-> {}]

----------------------------------------------------------------------------
(* SpecArg: the argument operations applied to one key, value and default *)

InitArg ==
    /\ NewRequest
    /\ NoCall
    /\ NoPace
    /\ NoMultipart
    /\ LastChance = "nil"
    /\ AgentName = << >>
    /\ inKey \in {KeyA}
    /\ inVal \in ArgValues
    /\ inDef \in ArgValues

ArgBudget == Count(QueryParams) + Count(FormParams) + Count(AutoParams) < MaxArgOps

ArgStep        == ArgBudget /\ Arg(inKey, inVal)
URLArgStep     == ArgBudget /\ URLArg(inKey, inVal)
FormArgStep    == ArgBudget /\ FormArg(inKey, inVal)
ArgDefaultStep == ArgBudget /\ ArgDefault(inKey, inVal, inDef)
URLArgDefaultStep  == ArgBudget /\ URLArgDefault(inKey, inVal, inDef)
FormArgDefaultStep == ArgBudget /\ FormArgDefault(inKey, inVal, inDef)

NextArg ==
    \/ ArgStep
    \/ URLArgStep
    \/ FormArgStep
    \/ ArgDefaultStep
    \/ URLArgDefaultStep
    \/ FormArgDefaultStep

SpecArg == InitArg /\ [][NextArg]_vars

----------------------------------------------------------------------------
(* SpecBuild: requests built by Method, Arg, URLArg, FormArg, FileArg and   *)
(* Multipart                                                                *)

MaxArgs  == 2
MaxFiles == 1

BuildKeys   == {KeyA, KeyB}
BuildValues == {Val("string", <<"x">>), Val("string", <<"y", "&">>)}

BuildBudget ==
    Count(QueryParams) + Count(FormParams) + Count(AutoParams) < MaxArgs

InitBuild ==
    /\ NewRequest
    /\ NoCall
    /\ NoPace
    /\ NoMultipart
    /\ LastChance = "nil"
    /\ AgentName = << >>
    /\ inKey = KeyA
    /\ inVal = NilValue
    /\ inDef = NilValue

BuildMethod    == \E v \in Verbs : Method(v)
BuildArg       == BuildBudget /\ \E k \in BuildKeys, v \in BuildValues : Arg(k, v)
BuildURLArg    == BuildBudget /\ \E k \in BuildKeys, v \in BuildValues : URLArg(k, v)
BuildFormArg   == BuildBudget /\ \E k \in BuildKeys, v \in BuildValues : FormArg(k, v)
BuildFileArg   ==
    /\ Count(FormFiles) < MaxFiles
    /\ \E s \in Sources : FileArg(KeyA, <<"f", Quote, "g">>, s)
BuildMultipart == Multipart

NextBuild ==
    \/ BuildMethod
    \/ BuildArg
    \/ BuildURLArg
    \/ BuildFormArg
    \/ BuildFileArg
    \/ BuildMultipart

SpecBuild == InitBuild /\ [][NextBuild]_vars

----------------------------------------------------------------------------
(* SpecDo: a request is built and dispatched once, against a transport that *)
(* answers with a response, an error, or both.  The client has no           *)
(* RateLimiter and the agent name "t".  The request may also be dispatched  *)
(* through mock.RequestMock.                                                *)

MaxDecoders == 2

\* GET, two other verbs, and a method http.NewRequest rejects
DoVerbs == {"GET", "PATCH", "HEAD", "BAD VERB"}

\* what the last-chance hook may return
HookResults == {"nil", "veto A", "veto B"}

Answer(hasResp, bytes, readErr, err) ==
    [given |-> TRUE, hasResp |-> hasResp, body |-> bytes, readErr |-> readErr,
     err |-> err]

\* what HttpClient.Do may return: a response whose body reads as bytes or
\* breaks off with a read error, or an error with or without a response
Answers ==
    {Answer(TRUE, b, "nil", "nil") : b \in {JsonBody, JunkBody}}
        \cup {Answer(TRUE, JunkBody, "unexpected EOF", "nil")}
        \cup {Answer(r, << >>, "nil", "connection refused") : r \in BOOLEAN}

InitDo ==
    /\ \E cache \in {NoCachedBody, EmptyBody} : NewRequestWith(cache)
    /\ NoCall
    /\ NoPace
    /\ NoMultipart
    /\ LastChance \in {"nil", "set"}
    /\ AgentName = <<"t">>
    /\ inKey = KeyA
    /\ inVal = NilValue
    /\ inDef = NilValue

DoMethod     == \E v \in DoVerbs : Method(v)
DoArg        == KeyA \notin DOMAIN AutoParams /\ Arg(KeyA, Val("string", <<"x">>))
DoFileArg    ==
    /\ Count(FormFiles) < MaxFiles
    /\ \E s \in Sources : FileArg(IF Closable(s) THEN KeyA ELSE KeyB, <<"f">>, s)
DoJSONInto   == Len(Response) < MaxDecoders /\ JSONInto
DoXMLInto    == Len(Response) < MaxDecoders /\ XMLInto
DoHeader     ==
    /\ ToLower(ContentType) \notin DOMAIN Headers
    /\ Header(ContentType, <<"text/plain">>)
DoMultipart  == Multipart
DoDebugPrint == \E c \in BodyChoices : DebugPrint(c)
DoRequestDo  == \E h \in HookResults, c \in BodyChoices : RequestDo(h, c)
DoReturn     ==
    \E a \in Answers, o \in Orders(DOMAIN FormFiles) : ReqtifierDoReturn(a, o)
DoMockDo     ==
    \E h \in BOOLEAN :
        \E a \in {Answer(TRUE, JsonBody, "nil", "nil"),
                  Answer(TRUE, << >>, "nil", "connection refused")} :
            RequestMockDo(h, a)

NextDo ==
    \/ DoMethod
    \/ DoArg
    \/ DoFileArg
    \/ DoJSONInto
    \/ DoXMLInto
    \/ DoHeader
    \/ DoMultipart
    \/ DoDebugPrint
    \/ DoRequestDo
    \/ DoReturn
    \/ DoMockDo

SpecDo == InitDo /\ [][NextDo]_vars

----------------------------------------------------------------------------
(* Claims on the argument operations, under SpecArg *)

PlainOps   == {"Arg", "URLArg", "FormArg"}
DefaultOps == {"ArgDefault", "URLArgDefault", "FormArgDefault"}

BucketOf(op) ==
    CASE op \in {"Arg", "ArgDefault"}         -> "auto"
      [] op \in {"URLArg", "URLArgDefault"}   -> "query"
      [] op \in {"FormArg", "FormArgDefault"} -> "form"

\* the buckets after the last operation, had it appended str under key to its
\* own bucket and nothing else
Appended(op, key, str) == [pre EXCEPT ![BucketOf(op)] = Add(@, key, str)]

\* C2 as stated: for supported v and d, the *Default operations add nothing
\* when v == d or stringify(v) == stringify(d), and otherwise append exactly
\* stringify(v) under the key (an absent v appends nothing)
C2_OmitsOnEqualStringified ==
    (lastOp \in DefaultOps /\ Supported(inVal) /\ Supported(inDef)) =>
        LET sv == stringify(inVal)
            sd == stringify(inDef)
            omit == \/ IfaceEq(inVal, inDef)
                    \/ ~sv.present
                    \/ (sd.present /\ sv.str = sd.str)
        IN  /\ ~panicked
            /\ Buckets = IF omit THEN pre ELSE Appended(lastOp, inKey, sv.str)

\* C2 amended: the *Default operations add nothing when v == d (same dynamic
\* type and equal value, pointers by identity), when v is absent, or when d is
\* a text value equal to stringify(v); otherwise they append exactly
\* stringify(v) under the key
C2_OmitsOnEqualOrTextDefault ==
    (lastOp \in DefaultOps /\ Supported(inVal) /\ Supported(inDef)) =>
        LET sv == stringify(inVal)
            omit == \/ IfaceEq(inVal, inDef)
                    \/ ~sv.present
                    \/ (inDef.kind = "string" /\ ~inDef.ptr /\ inDef.val = sv.str)
        IN  /\ ~panicked
            /\ Buckets = IF omit THEN pre ELSE Appended(lastOp, inKey, sv.str)

\* an integer 3 was passed with the text default "3" and was omitted
C2_Witness ==
    /\ lastOp = "ArgDefault"
    /\ inVal = Val("int", 3)
    /\ inDef = Val("string", <<"3">>)
    /\ Count(pre.auto) = 1
    /\ Buckets = pre

\* C3: for each recognized kind, a null pointer stringifies to absent and
\* Arg/URLArg/FormArg with it leave every bucket unchanged; a non-null pointer
\* stringifies to exactly what the value it points to stringifies to, and that
\* string is what Arg/URLArg/FormArg append
C3_PointerStringify ==
    (inVal.kind \in Kinds /\ inVal.ptr) =>
        LET sp == stringify(inVal)
            sv == stringify(Val(inVal.kind, inVal.val))
        IN  IF inVal.addr = 0
            THEN /\ ~sp.present /\ ~sp.panic
                 /\ lastOp \in PlainOps => (Buckets = pre /\ ~panicked)
            ELSE /\ sp.present /\ sv.present /\ sp.str = sv.str
                 /\ lastOp \in PlainOps =>
                        (Buckets = Appended(lastOp, inKey, sv.str) /\ ~panicked)

\* FormArg was called with a null pointer to a character
C3_Witness ==
    /\ lastOp = "FormArg"
    /\ inVal = Ptr("rune", 0, Zero("rune"))
    /\ Count(pre.form) = 0

----------------------------------------------------------------------------
(* Claims on the routing of the auto bucket, under SpecBuild *)

\* the pieces of s between the separators sep
RECURSIVE SplitAcc(_, _, _, _)
SplitAcc(s, sep, cur, acc) ==
    IF s = << >> THEN Append(acc, cur)
    ELSE IF Head(s) = sep THEN SplitAcc(Tail(s), sep, << >>, Append(acc, cur))
    ELSE SplitAcc(Tail(s), sep, Append(cur, Head(s)), acc)

Split(s, sep) == SplitAcc(s, sep, << >>, << >>)

Escaped == {Quote, "%", "&", "+", "/", ":", "=", "?", Backslash}

\* url.QueryUnescape
RECURSIVE QueryUnescape(_)
QueryUnescape(s) ==
    IF s = << >> THEN << >>
    ELSE IF Head(s) = "+" THEN <<" ">> \o QueryUnescape(Tail(s))
    ELSE IF Head(s) = "%" /\ Len(s) >= 3
    THEN <<CHOOSE c \in Escaped : Hex(c) = <<s[2], s[3]>> >>
             \o QueryUnescape(SubSeq(s, 4, Len(s)))
    ELSE <<Head(s)>> \o QueryUnescape(Tail(s))

\* the first index of c in s, or 0
IndexOf(s, c) ==
    IF c \in Range(s) THEN CHOOSE i \in 1..Len(s) : s[i] = c /\ \A j \in 1..(i - 1) : s[j] # c
    ELSE 0

\* one "key=value" piece as the pair <<key, value>>
ParsePiece(piece) ==
    LET i == IndexOf(piece, "=")
    IN  IF i = 0 THEN <<QueryUnescape(piece), << >> >>
        ELSE <<QueryUnescape(SubSeq(piece, 1, i - 1)),
               QueryUnescape(SubSeq(piece, i + 1, Len(piece)))>>

\* url.ParseQuery: the key/value pairs of an urlencoded string, in order
ParseQuery(s) ==
    LET pieces == SelectSeq(Split(s, "&"), LAMBDA x : x # << >>)
    IN  [i \in 1..Len(pieces) |-> ParsePiece(pieces[i])]

\* the query string of an URL: what follows its first "?"
QueryOf(u) ==
    LET i == IndexOf(u, "?")
    IN  IF i = 0 THEN << >> ELSE SubSeq(u, i + 1, Len(u))

\* how often the pair is in a sequence of pairs
Times(pairs, pair) == Cardinality({i \in 1..Len(pairs) : pairs[i] = pair})

\* how often a bucket holds value under key
Held(values, pair) ==
    IF pair[1] \in DOMAIN values
    THEN Cardinality({i \in 1..Len(values[pair[1]]) : values[pair[1]][i] = pair[2]})
    ELSE 0

\* how often the byte sequence pat occurs in s
Occurrences(s, pat) ==
    Cardinality({i \in 1..Len(s) :
                    /\ i + Len(pat) - 1 <= Len(s)
                    /\ SubSeq(s, i, i + Len(pat) - 1) = pat})

\* a text field of a multipart body as it is on the wire
FieldBytes(pair) ==
    <<"Content-Disposition: form-data; name=", Quote>> \o escapeQuotes(pair[1])
        \o <<Quote, CRLF, CRLF>> \o pair[2] \o <<CRLF>>

PairsOf(values) ==
    UNION {{<<k, values[k][i]>> : i \in 1..Len(values[k])} : k \in DOMAIN values}

AllPairs == PairsOf(QueryParams) \cup PairsOf(FormParams) \cup PairsOf(AutoParams)

\* how often the body GetBody returns under choice c carries the pair
InBody(c, pair) ==
    LET g == GetBody(c)
        bytes == ReadAll(g.reader, {}).bytes
    IN  IF g.mimetype = FormURLEncoded THEN Times(ParseQuery(bytes), pair)
        ELSE Occurrences(bytes, FieldBytes(pair))

\* C1: the auto bucket is routed by verb.  With Verb GET every key/value of
\* the auto bucket is in the query string of URL() and none is in the body of
\* GetBody() (urlencoded or multipart, no cached body); with any other verb
\* every one is in the body and none is in the URL.  "None" is counted: the URL
\* (the body) then carries a pair exactly as often as the query (form) bucket
\* holds it.
C1_AutoRoutedByVerb ==
    \A pair \in AllPairs :
        /\ Times(ParseQuery(QueryOf(URL)), pair)
               = Held(QueryParams, pair)
                    + (IF Verb = "GET" THEN Held(AutoParams, pair) ELSE 0)
        /\ ~body.cached =>
               \A c \in BodyChoices :
                   InBody(c, pair)
                       = Held(FormParams, pair)
                            + (IF Verb # "GET" THEN Held(AutoParams, pair) ELSE 0)

\* a DELETE request with forced multipart encoding holds an auto argument and
\* a form argument
C1_Witness ==
    /\ Verb = "DELETE"
    /\ ForceMultipart
    /\ Count(AutoParams) > 0
    /\ Count(FormParams) > 0

----------------------------------------------------------------------------
(* Claims on the dispatch, under SpecDo *)

TransportSucceeded == answer.given /\ answer.err = "nil"

\* the decoder invocations that failed
Failures == SelectSeq(unmarshalled, LAMBDA u : u.err # "nil")

\* the attachment sources of the request
Attached ==
    UNION {{FormFiles[k][i].Data : i \in 1..Len(FormFiles[k])} : k \in DOMAIN FormFiles}

\* C4: when the transport call succeeds and at least one registered decoder
\* fails, Do returns the received response together with a non-nil error
C4_DecoderErrorReturned ==
    (pc = "done" /\ TransportSucceeded /\ Len(Failures) >= 1) =>
        (ret.hasResp /\ ret.err # "nil")

\* C5: when two or more registered decoders fail on the same response, the
\* error Do returns is the error of the last decoder that failed
C5_LastDecoderErrorReturned ==
    (pc = "done" /\ TransportSucceeded /\ Len(Failures) >= 2) =>
        ret.err = Failures[Len(Failures)].err

C7_TransportErrorAborts ==
    (pc = "done" /\ answer.given /\ answer.err # "nil") =>
        /\ ret.returned /\ ~ret.hasResp /\ ret.err = answer.err
        /\ unmarshalled = << >>
        /\ msg.sent /\ msg.Method = Verb /\ msg.URL = URL
        /\ Verb # "GET" =>
               \E c \in BodyChoices :
                   LET g == GetBody(c)
                   IN  /\ msg.hasBody = (g.reader.kind # "nil")
                       /\ msg.Body = ReadAll(g.reader, {}).bytes
                       /\ g.mimetype # << >> =>
                              /\ ContentType \in DOMAIN msg.Header
                              /\ g.mimetype \in Range(msg.Header[ContentType])

\* a PATCH request with a cached body and a decoder was answered with a
\* response and an error
C7_Witness ==
    /\ pc = "done"
    /\ answer.err # "nil"
    /\ answer.hasResp
    /\ Verb = "PATCH"
    /\ body.cached
    /\ Len(Response) > 0

\* C8: once the transport has been called, every closable attachment source is
\* closed by the time Do returns, on every exit path
C8_ClosableSourcesClosed ==
    (pc = "done" /\ msg.sent) =>
        \A s \in Attached : Closable(s) => s \in closed

\* C9: with an attachment source that is not closable, Do on a successful
\* transport call does not abort and returns the transport's response (a
\* failed read of the response body for the decoders aside); only closable
\* sources are closed
C9_PlainSourceNotClosed ==
    /\ \A s \in closed : Closable(s)
    /\ (TransportSucceeded /\ (\E s \in Attached : ~Closable(s))
            /\ (Len(Response) = 0 \/ answer.readErr = "nil")) =>
           (~panicked /\ pc = "done" /\ ret.returned /\ ret.hasResp)

\* C10: when the last-chance hook returns an error, Do returns no response and
\* that same error, and the transport is never called
C10_HookVetoAborts ==
    hookResult \notin {"not called", "nil"} =>
        /\ pc = "done"
        /\ ret.returned /\ ~ret.hasResp /\ ret.err = hookResult
        /\ transportCalls = 0
        /\ ~msg.sent
        /\ ~answer.given

\* the hook vetoed a request that has an attachment and a decoder
C10_Witness ==
    /\ hookResult = "veto B"
    /\ ret.returned
    /\ Count(FormFiles) > 0
    /\ Len(Response) > 0

\* C11: when the body computation yields a content type and the caller has set
\* a "content-type" header, the computed content type is the single
\* Content-Type value of the outbound message
C11_ComputedContentTypeOverrides ==
    (msg.sent /\ Verb # "GET" /\ ToLower(ContentType) \in DOMAIN Headers) =>
        \E c \in BodyChoices :
            LET g == GetBody(c)
            IN  g.mimetype # << >> => msg.Header[ContentType] = <<g.mimetype>>

----------------------------------------------------------------------------
(* SpecPace: concurrent Do calls on one client that has a RateLimiter, a    *)
(* last-chance hook and the transport double in Examine mode.  Each call    *)
(* has its own request, made by New("/t") (the request variables above, but *)
(* for the headers, which are each call's own).  One goroutine ticks, one   *)
(* observes the transport double as TestReqtifierImplDo does: it receives a *)
(* request from Requests, then sends its answer on Responses.               *)

MaxCallers == 2
MaxTicks   == 2

Callers == 1..MaxCallers

\* the statements of RequestImpl.Do and ReqtifierImpl.Do in program order
DoSteps == <<"agent", "hook", "gate", "build", "transport">>

NoHook == [seen |-> FALSE, Headers |-> EmptyValues, tick |-> 0, err |-> "nil"]

NewCall ==
    [pc |-> "new", Headers |-> EmptyValues, before |-> EmptyValues,
     hook |-> NoHook, tick |-> 0, log |-> << >>, msg |-> NoMessage,
     answer |-> NoAnswer, ret |-> NotReturned]

\* the hook's verdicts in SpecPace
PaceHookResults == {"nil", "veto A"}

\* a step of call c: its record changes, the one request of SpecDo and the
\* multipartRequestBody of SpecMultipart stay as they are
CallStep(c, call) ==
    /\ calls' = [calls EXCEPT ![c] = call]
    /\ UNCHANGED <<reqVars, bucketVars, clientVars, pipeVars, panicked, lastOp, pre,
                   inVars, mpVars, headerCalls>>

\* Header(key, value) on the request of call c, before its Do
CallHeader(c, key, value) ==
    /\ calls[c].pc = "new"
    /\ CallStep(c, [calls[c] EXCEPT !.Headers = Put(@, ToLower(key), value)])
    /\ UNCHANGED <<ticker, examiner>>

\* RequestImpl.Do going to the hook without the agent header
CallAgentSkipped(c) ==
    /\ calls[c].pc = "new"
    /\ CallStep(c, [calls[c] EXCEPT !.pc = "hook", !.log = Append(@, "agent"),
                                    !.before = calls[c].Headers])
    /\ UNCHANGED <<ticker, examiner>>

\* RequestImpl.Do, first statement: the agent header is written with Header
\* (before: the headers the caller had set)
CallAgent(c) ==
    /\ calls[c].pc = "new"
    /\ CallStep(c, [calls[c] EXCEPT
           !.pc = "hook",
           !.log = Append(@, "agent"),
           !.before = calls[c].Headers,
           !.Headers = IF Len(AgentName) # 0
                       THEN Put(@, ToLower(UserAgent), AgentName)
                       ELSE @])
    /\ UNCHANGED <<ticker, examiner>>

\* RequestImpl.Do, second statement: the last-chance hook is called with the
\* request and answers err; a non-nil err is returned
CallHook(c, err) ==
    /\ calls[c].pc = "hook"
    /\ IF LastChance = "set"
       THEN CallStep(c, [calls[c] EXCEPT
                !.log = Append(@, "hook"),
                !.hook = [seen |-> TRUE, Headers |-> calls[c].Headers,
                          tick |-> calls[c].tick, err |-> err],
                !.pc = IF err # "nil" THEN "returned" ELSE "gate",
                !.ret = IF err # "nil" THEN Return(FALSE, << >>, err) ELSE @])
       ELSE /\ err = "nil"
            /\ CallStep(c, [calls[c] EXCEPT !.log = Append(@, "hook"), !.pc = "gate"])
    /\ UNCHANGED <<ticker, examiner>>

\* ReqtifierImpl.Do passing the gate without a tick
CallGateOpen(c) ==
    /\ calls[c].pc = "gate"
    /\ CallStep(c, [calls[c] EXCEPT !.log = Append(@, "gate"), !.pc = "build"])
    /\ UNCHANGED <<ticker, examiner>>

\* ReqtifierImpl.Do, first statement: "<- this.RateLimiter.C" when there is a
\* RateLimiter; the receive blocks while the channel is empty
CallGate(c) ==
    /\ calls[c].pc = "gate"
    /\ IF ticker.set
       THEN /\ Len(ticker.C) > 0
            /\ ticker' = [ticker EXCEPT !.C = Tail(@)]
            /\ CallStep(c, [calls[c] EXCEPT !.log = Append(@, "gate"),
                                            !.tick = Head(ticker.C),
                                            !.pc = "build"])
       ELSE /\ UNCHANGED ticker
            /\ CallStep(c, [calls[c] EXCEPT !.log = Append(@, "gate"), !.pc = "build"])
    /\ UNCHANGED examiner

\* the time.Ticker: its channel has room for one tick, and a tick that finds
\* the channel full is dropped
Tick ==
    /\ ticker.set
    /\ ticker.delivered < MaxTicks
    /\ Len(ticker.C) = 0
    /\ ticker' = [ticker EXCEPT !.C = <<ticker.delivered + 1>>,
                                !.delivered = @ + 1]
    /\ UNCHANGED <<calls, examiner>>
    /\ UNCHANGED <<reqVars, bucketVars, clientVars, pipeVars, panicked, lastOp, pre,
                   inVars, mpVars, headerCalls>>

\* ReqtifierImpl.Do from the URL to the outbound message (the request is a GET
\* without arguments: no body)
CallBuild(c, choice) ==
    /\ calls[c].pc = "build"
    /\ CallStep(c, [calls[c] EXCEPT
           !.log = Append(@, "build"),
           !.msg = OutboundMessage(calls[c].Headers, choice, {}),
           !.pc = "send"])
    /\ UNCHANGED <<ticker, examiner>>

\* HttpClient.Do with the analyzer of Examine going on to its receive without
\* sending the request
CallSendSkipped(c) ==
    /\ calls[c].pc = "send"
    /\ CallStep(c, [calls[c] EXCEPT !.log = Append(@, "transport"), !.pc = "await"])
    /\ UNCHANGED <<ticker, examiner>>

\* HttpClient.Do, the analyzer of Examine: "requestReader <- req".  The channel
\* has no buffer: the send happens when the observer receives
CallSend(c) ==
    /\ calls[c].pc = "send"
    /\ examiner.set
    /\ examiner.pc = "receive"
    /\ examiner' = [examiner EXCEPT !.pc = "answer", !.request = c,
                                    !.requests = Append(@, c)]
    /\ CallStep(c, [calls[c] EXCEPT !.log = Append(@, "transport"), !.pc = "await"])
    /\ UNCHANGED ticker

\* the answer of the observer to the request it holds
ExaminerAnswer(err) ==
    Answer(err = "nil", <<"answer to", examiner.request>>, "nil", err)

\* the analyzer of Examine returning without an answer of the observer
CallReceiveUnanswered(c, err) ==
    LET a == ExaminerAnswer(err)
    IN  /\ calls[c].pc = "await"
        /\ CallStep(c, [calls[c] EXCEPT
               !.answer = a,
               !.ret = IF a.err # "nil" THEN Return(FALSE, << >>, a.err)
                       ELSE Return(TRUE, a.body, a.err),
               !.pc = "returned"])
        /\ UNCHANGED <<ticker, examiner>>

\* the analyzer of Examine: "response := <- responseWriter" and the return of
\* HttpClient.Do, then ReqtifierImpl.Do to its return (no attachments, no
\* decoders).  The observer sends its answer when a call receives
CallReceive(c, err) ==
    LET a == ExaminerAnswer(err)
    IN  /\ calls[c].pc = "await"
        /\ examiner.pc = "answer"
        /\ examiner' = [examiner EXCEPT
               !.pc = "receive", !.request = 0,
               !.answers = Append(@, [request |-> examiner.request, answer |-> a])]
        /\ CallStep(c, [calls[c] EXCEPT
               !.answer = a,
               !.ret = IF a.err # "nil" THEN Return(FALSE, << >>, a.err)
                       ELSE Return(TRUE, a.body, a.err),
               !.pc = "returned"])
        /\ UNCHANGED ticker

\* test.ErrNoHandler
ErrNoHandler == "HttpClientMock received a request it was not expecting"

\* HttpClient.Do of the transport double without an analyzer: it returns
\* (nil, ErrNoHandler), and ReqtifierImpl.Do returns (nil, err)
CallNoHandler(c) ==
    /\ calls[c].pc = "send"
    /\ ~examiner.set
    /\ CallStep(c, [calls[c] EXCEPT
           !.log = Append(@, "transport"),
           !.ret = Return(FALSE, << >>, ErrNoHandler),
           !.pc = "returned"])
    /\ UNCHANGED <<ticker, examiner>>

InitPace ==
    /\ NewRequest
    /\ NoCall
    /\ NoMultipart
    /\ LastChance = "set"
    /\ AgentName \in {<< >>, <<"t">>}
    /\ inKey = KeyA
    /\ inVal = NilValue
    /\ inDef = NilValue
    /\ calls = [c \in Callers |-> NewCall]
    /\ ticker = [NoTicker EXCEPT !.set = TRUE]
    /\ examiner = [NoExaminer EXCEPT !.set = TRUE]

PaceHeader ==
    \E c \in Callers :
        /\ ToLower(UserAgent) \notin DOMAIN calls[c].Headers
        /\ CallHeader(c, UserAgent, <<"mine">>)
PaceAgent   == \E c \in Callers : CallAgent(c)
PaceHook    == \E c \in Callers, e \in PaceHookResults : CallHook(c, e)
PaceGate    == \E c \in Callers : CallGate(c)
PaceBuild   == \E c \in Callers, choice \in BodyChoices : CallBuild(c, choice)
PaceSend    == \E c \in Callers : CallSend(c)
PaceReceive == \E c \in Callers, e \in {"nil", "connection refused"} : CallReceive(c, e)
PaceTick    == Tick

NextPace ==
    \/ PaceHeader
    \/ PaceAgent
    \/ PaceHook
    \/ PaceGate
    \/ PaceBuild
    \/ PaceSend
    \/ PaceReceive
    \/ PaceTick

SpecPace == InitPace /\ [][NextPace]_vars

----------------------------------------------------------------------------
(* Claims on concurrent calls, under SpecPace *)

\* call c has built its message and is in, or past, its transport call
Dispatched(c) == calls[c].msg.sent

IsPrefix(s, t) == Len(s) <= Len(t) /\ s = SubSeq(t, 1, Len(s))

\* C12: with a RateLimiter, every transport call is preceded by that call
\* consuming one tick, no tick is consumed by two calls, the number of
\* transport calls started is at most the number of ticks delivered, and a call
\* stays at the gate while no tick is available
C12_OneTickPerDispatch ==
    /\ [](/\ \A c \in Callers : Dispatched(c) => calls[c].tick \in 1..ticker.delivered
          /\ \A c, d \in Callers :
                 (c # d /\ calls[c].tick # 0) => calls[c].tick # calls[d].tick
          /\ Cardinality({c \in Callers : Dispatched(c)}) <= ticker.delivered)
    /\ [][\A c \in Callers :
              (calls[c].pc = "gate" /\ ticker.C = << >>) => calls'[c].pc = "gate"]_vars

\* one call was dispatched with the only tick delivered so far, and another
\* call waits at the gate for a tick that is not there yet
C12_Witness ==
    /\ ticker.delivered = 1
    /\ ticker.C = << >>
    /\ \E c, d \in Callers :
           /\ Dispatched(c) /\ calls[c].tick = 1
           /\ calls[d].pc = "gate"

\* C18: with the transport double in Examine mode and an observer that answers
\* each request before it receives the next, each request is handed to the
\* observer exactly once, and each call returns what the observer answered to
\* that call's own request
C18_AnswersReachTheirCaller ==
    \A c \in Callers :
        /\ Len(SelectSeq(examiner.requests, LAMBDA r : r = c))
               = (IF "transport" \in Range(calls[c].log) THEN 1 ELSE 0)
        /\ calls[c].answer.given =>
               /\ calls[c].answer.body = <<"answer to", c>>
               /\ Len(SelectSeq(examiner.answers,
                                LAMBDA x : x.request = c
                                           /\ x.answer = calls[c].answer)) = 1
               /\ calls[c].pc = "returned"
               /\ calls[c].ret = (IF calls[c].answer.err # "nil"
                                  THEN Return(FALSE, << >>, calls[c].answer.err)
                                  ELSE Return(TRUE, calls[c].answer.body, "nil"))

\* two calls were under way together; the one whose request the observer
\* received first got its error, the other one its response
C18_Witness ==
    \E c, d \in Callers :
        /\ examiner.requests = <<c, d>>
        /\ calls[c].tick > calls[d].tick
        /\ calls[c].answer.given /\ calls[c].ret.err = "connection refused"
        /\ calls[d].answer.given /\ calls[d].ret.hasResp

\* C20: the steps of one Do call happen in the order agent header, hook, gate,
\* URL and body, transport; the hook sees the agent header (which replaces a
\* value the caller set, and is written only when the agent name is not
\* empty) and runs before any tick is taken, so a vetoed request consumes no
\* tick and is never built or sent
C20_DoStepOrder ==
    /\ ticker.delivered - Len(ticker.C)
           = Cardinality({c \in Callers : calls[c].tick # 0})
    /\ \A c \in Callers :
           LET call == calls[c]
               ua == ToLower(UserAgent)
           IN  /\ IsPrefix(call.log, DoSteps)
               /\ call.hook.seen =>
                      /\ call.hook.tick = 0
                      /\ call.hook.Headers = call.Headers
                      /\ IF Len(AgentName) # 0
                         THEN /\ DOMAIN call.hook.Headers = DOMAIN call.before \cup {ua}
                              /\ \A k \in DOMAIN call.hook.Headers :
                                     call.hook.Headers[k]
                                         = (IF k = ua THEN AgentName ELSE call.before[k])
                         ELSE call.hook.Headers = call.before
               /\ call.hook.err # "nil" =>
                      /\ call.pc = "returned"
                      /\ call.ret = Return(FALSE, << >>, call.hook.err)
                      /\ call.tick = 0
                      /\ ~call.msg.sent
                      /\ call.log = <<"agent", "hook">>
               /\ call.tick # 0 => (call.hook.seen /\ call.hook.err = "nil")
               /\ call.msg.sent =>
                      /\ call.tick # 0
                      /\ Len(AgentName) # 0 =>
                             call.msg.Header[UserAgent] = <<AgentName>>
               /\ "transport" \in Range(call.log) => call.msg.sent

\* the hook vetoed a request whose caller had set a user-agent header, on a
\* client with an agent name, while another call was dispatched with a tick
C20_Witness ==
    /\ Len(AgentName) # 0
    /\ \E c, d \in Callers :
           /\ calls[c].hook.err = "veto A"
           /\ calls[c].log = <<"agent", "hook">>
           /\ ToLower(UserAgent) \in DOMAIN calls[c].before
           /\ calls[d].tick # 0
           /\ calls[d].pc = "await"

----------------------------------------------------------------------------
(* Further claims on one dispatch, under SpecDo *)

\* what GetBody returns for a cached body
FromCache(cache) ==
    IF cache.isnil THEN [reader |-> NilReader, mimetype |-> << >>]
    ELSE [reader |-> BytesReader(cache.body), mimetype |-> cache.mimetype]

\* C13: once a request has a cached body, GetBody after any further step (Arg,
\* FileArg, Multipart, Method, DebugPrint, Do) returns a reader over exactly
\* the cached bytes with the cached content type, or no body and an empty
\* content type for a cache without bytes, and reading it reads from no
\* attachment source
C13_CachedBodyReturned ==
    [][body.cached =>
           \A c \in BodyChoices' :
               LET got == GetBody(c)'
               IN  /\ got = FromCache(body)
                   /\ ReadAll(got.reader, drained').drained = drained']_vars

\* a body with an attachment was cached by DebugPrint, which drained the
\* source, and the request was changed afterwards
C13_Witness ==
    /\ body.cached
    /\ ~body.isnil
    /\ \E s \in Attached : s \in drained
    /\ Verb = "GET"
    /\ KeyA \in DOMAIN AutoParams
    /\ pc = "sent"

\* C14: when at least one decoder is registered and the transport call and the
\* read of the body succeed, the response Do returns has a body that reads,
\* from its start, as the bytes the transport delivered
C14_BodyStillReadable ==
    (pc \in {"done", "mock done"} /\ TransportSucceeded /\ Len(Response) >= 1
        /\ answer.readErr = "nil") =>
        (ret.hasResp /\ ret.body = answer.body)

\* the Content-Type values of the message that were set by the caller
CallerContentType ==
    IF ToLower(ContentType) \in DOMAIN Headers
    THEN <<Headers[ToLower(ContentType)]>> ELSE << >>

\* the Content-Type values of the message
SentContentType ==
    IF ContentType \in DOMAIN msg.Header THEN msg.Header[ContentType] ELSE << >>

\* C17: a dispatch with Verb GET computes no body: the message has no body and
\* no computed Content-Type, whatever the buckets, the attachments, the
\* force-multipart flag and the cached body are, and no attachment is read;
\* for every other verb the message carries the reader and the content type of
\* GetBody
C17_GetSendsNoBody ==
    msg.sent =>
        IF Verb = "GET"
        THEN /\ ~msg.hasBody
             /\ msg.Body = << >>
             /\ SentContentType = CallerContentType
             /\ ~body.cached => drained = {}
        ELSE \E c \in BodyChoices :
                 LET g == GetBody(c)
                 IN  /\ msg.hasBody = (g.reader.kind # "nil")
                     /\ msg.Body = ReadAll(g.reader, {}).bytes
                     /\ SentContentType
                            = CallerContentType
                                  \o (IF g.mimetype # << >> THEN <<g.mimetype>> ELSE << >>)

\* a GET request with an argument, an attachment and the force-multipart flag
\* was dispatched
C17_Witness ==
    /\ msg.sent
    /\ Verb = "GET"
    /\ ForceMultipart
    /\ Count(FormFiles) > 0
    /\ KeyA \in DOMAIN AutoParams
    /\ ~body.cached

----------------------------------------------------------------------------
(* SpecHeader: Header calls on a GET request, which is then dispatched *)

MaxHeaders == 3

HeaderKeys ==
    {<<"X", "-", "I", "d">>, <<"x", "-", "i", "d">>, <<"X", "-", "I", "D">>,
     UserAgent}
HeaderValues == {<<"v1">>, <<"v2">>}

InitHeader ==
    /\ NewRequest
    /\ NoCall
    /\ NoPace
    /\ NoMultipart
    /\ LastChance = "nil"
    /\ AgentName \in {<< >>, <<"t">>}
    /\ inKey = KeyA
    /\ inVal = NilValue
    /\ inDef = NilValue

HdrHeader ==
    /\ Len(headerCalls) < MaxHeaders
    /\ \E k \in HeaderKeys, v \in HeaderValues : Header(k, v)
HdrRequestDo == \E c \in BodyChoices : RequestDo("nil", c)
HdrReturn ==
    \E a \in Answers, o \in Orders(DOMAIN FormFiles) : ReqtifierDoReturn(a, o)

NextHeader ==
    \/ HdrHeader
    \/ HdrRequestDo
    \/ HdrReturn

SpecHeader == InitHeader /\ [][NextHeader]_vars

\* C19: after any sequence of Header calls the header map holds only
\* lower-cased keys and, for each of them, the value of the most recent call
\* whose key equals it but for the case of its letters; at dispatch each entry
\* is applied once to the outbound message
C19_HeaderLastWriteWins ==
    /\ \A i \in 1..Len(headerCalls) : ToLower(headerCalls[i].key) \in DOMAIN Headers
    /\ \A k \in DOMAIN Headers :
           /\ k = ToLower(k)
           /\ \E i \in 1..Len(headerCalls) :
                  /\ ToLower(headerCalls[i].key) = k
                  /\ headerCalls[i].value = Headers[k]
                  /\ \A j \in (i + 1)..Len(headerCalls) :
                         ToLower(headerCalls[j].key) # k
    /\ msg.sent =>
           /\ DOMAIN msg.Header = {CanonicalMIMEHeaderKey(k) : k \in DOMAIN Headers}
           /\ \A k \in DOMAIN Headers :
                  msg.Header[CanonicalMIMEHeaderKey(k)] = <<Headers[k]>>

\* the same header was written three times in three spellings, and the message
\* was sent with the value of the last call
C19_Witness ==
    /\ Len(headerCalls) = 3
    /\ headerCalls[1] = [key |-> <<"X", "-", "I", "D">>, value |-> <<"v2">>]
    /\ headerCalls[2] = [key |-> <<"x", "-", "i", "d">>, value |-> <<"v2">>]
    /\ headerCalls[3] = [key |-> <<"X", "-", "I", "d">>, value |-> <<"v1">>]
    /\ msg.sent
    /\ msg.Header = (<<"X", "-", "I", "d">> :> <<<<"v1">>>>)

----------------------------------------------------------------------------
(* Claims on the multipart body, under SpecBuild: the body is parsed back   *)
(* from its bytes                                                           *)

\* a boundary line starts at position i of the body
DelimiterAt(bytes, i) ==
    /\ i + 2 <= Len(bytes)
    /\ bytes[i] = "--"
    /\ bytes[i + 1] = "----multipart"
    /\ bytes[i + 2] \in RandTokens

RECURSIVE Ascending(_)
Ascending(S) ==
    IF S = {} THEN << >>
    ELSE LET m == CHOOSE x \in S : \A y \in S : x <= y
         IN  <<m>> \o Ascending(S \ {m})

Delimiters(bytes) == Ascending({i \in 1..Len(bytes) : DelimiterAt(bytes, i)})

\* a quoted string from behind its opening quote: its text, with the escapes
\* of escapeQuotes undone, and what follows its closing quote
RECURSIVE ReadQuoted(_, _)
ReadQuoted(s, acc) ==
    IF s = << >> THEN [ok |-> FALSE, text |-> acc, rest |-> << >>]
    ELSE IF Head(s) = Quote THEN [ok |-> TRUE, text |-> acc, rest |-> Tail(s)]
    ELSE IF Head(s) = Backslash /\ Len(s) >= 2
    THEN ReadQuoted(SubSeq(s, 3, Len(s)), Append(acc, s[2]))
    ELSE ReadQuoted(Tail(s), Append(acc, Head(s)))

StartsWith(s, start) == Len(s) >= Len(start) /\ SubSeq(s, 1, Len(start)) = start

BadSegment ==
    [ok |-> FALSE, file |-> FALSE, name |-> << >>, filename |-> << >>,
     content |-> << >>]

\* the headers and the content of a segment that ends with CRLF
ParseContent(file, name, filename, s) ==
    LET intro == IF file
                 THEN <<CRLF, "Content-Type: application/octet-stream", CRLF, CRLF>>
                 ELSE <<CRLF, CRLF>>
    IN  IF StartsWith(s, intro) /\ Len(s) > Len(intro) /\ s[Len(s)] = CRLF
        THEN [ok |-> TRUE, file |-> file, name |-> name, filename |-> filename,
              content |-> SubSeq(s, Len(intro) + 1, Len(s) - 1)]
        ELSE BadSegment

\* what follows a boundary line up to the next one, parsed
ParseSegment(seg) ==
    LET intro == <<CRLF, "Content-Disposition: form-data; name=", Quote>>
    IN  IF ~StartsWith(seg, intro) THEN BadSegment
        ELSE LET n == ReadQuoted(SubSeq(seg, Len(intro) + 1, Len(seg)), << >>)
             IN  IF ~n.ok THEN BadSegment
                 ELSE IF StartsWith(n.rest, <<"; filename=", Quote>>)
                 THEN LET f == ReadQuoted(SubSeq(n.rest, 3, Len(n.rest)), << >>)
                      IN  IF ~f.ok THEN BadSegment
                          ELSE ParseContent(TRUE, n.text, f.text, f.rest)
                 ELSE ParseContent(FALSE, n.text, << >>, n.rest)

\* the segments of a body whose boundary lines start at the positions D
Segments(bytes, D) ==
    [i \in 1..(Len(D) - 1) |-> ParseSegment(SubSeq(bytes, D[i] + 3, D[i + 1] - 1))]

\* how many of the segments from..to are the text field pair
TextSegments(segs, from, to, pair) ==
    Cardinality({i \in from..to :
                    /\ ~segs[i].file
                    /\ segs[i].name = pair[1]
                    /\ segs[i].content = pair[2]})

\* C15: for a request of another verb than GET that takes the multipart
\* branch, with f form values, a auto values and k attachments, the body read
\* from toReader() is f + a + k segments, each behind the same boundary line,
\* and then one closing boundary that ends the body; the form values are the
\* first f segments, the auto values the next a and the attachments the last
\* k, each under its own field name (and file name), each attachment source
\* in exactly one segment
C15_MultipartSegments ==
    (Verb # "GET" /\ ~body.cached /\ (ForceMultipart \/ DOMAIN FormFiles # {})) =>
        \A c \in BodyChoices :
            LET bytes == ReadAll(GetBody(c).reader, {}).bytes
                f == Count(FormParams)
                a == Count(AutoParams)
                k == Count(FormFiles)
                D == Delimiters(bytes)
                segs == Segments(bytes, D)
            IN  /\ Len(D) = f + a + k + 1
                /\ D[1] = 1
                /\ \A i \in 1..Len(D) : bytes[D[i] + 2] = c.r
                /\ D[Len(D)] + 3 = Len(bytes)
                /\ bytes[Len(bytes)] = "--"
                /\ \A i \in 1..(f + a + k) : segs[i].ok
                /\ \A pair \in AllPairs :
                       /\ TextSegments(segs, 1, f, pair) = Held(FormParams, pair)
                       /\ TextSegments(segs, f + 1, f + a, pair) = Held(AutoParams, pair)
                /\ \A i \in 1..(f + a) : ~segs[i].file
                /\ \A i \in (f + a + 1)..(f + a + k) :
                       /\ segs[i].file
                       /\ \E key \in DOMAIN FormFiles :
                              \E j \in 1..Len(FormFiles[key]) :
                                  /\ segs[i].name = key
                                  /\ segs[i].filename = FormFiles[key][j].Name
                                  /\ segs[i].content
                                         \in {SourceData(FormFiles[key][j].Data), << >>}
                /\ \A s \in Attached :
                       Cardinality({i \in 1..(f + a + k) :
                                       segs[i].file
                                           /\ segs[i].content = SourceData(s)}) = 1

\* a PUT request with a form value, an auto value and an attachment
C15_Witness ==
    /\ Verb = "PUT"
    /\ Count(FormParams) = 1
    /\ Count(AutoParams) = 1
    /\ Count(FormFiles) = 1
    /\ ~body.cached

----------------------------------------------------------------------------
(* SpecMultipart: one multipartRequestBody under addParam, addFileParam,    *)
(* close and contentType in any order.  Each call may draw its own random   *)
(* letters, should it generate a boundary.                                  *)

MaxMpCalls == 4

InitMultipart ==
    /\ NewRequest
    /\ NoCall
    /\ NoPace
    /\ NoMultipart
    /\ LastChance = "nil"
    /\ AgentName = << >>
    /\ inKey = KeyA
    /\ inVal = NilValue
    /\ inDef = NilValue

\* a method call that leaves the multipartRequestBody as next and reported
\* the content types in types; a boundary that changed was generated
MpCall(next, types) ==
    /\ mpHist.calls < MaxMpCalls
    /\ mp' = next
    /\ mpHist' = [calls |-> mpHist.calls + 1,
                  generated |-> mpHist.generated
                                    + (IF next.effBoundary # mp.effBoundary THEN 1 ELSE 0),
                  reported |-> mpHist.reported \cup types]
    /\ UNCHANGED <<reqVars, bucketVars, clientVars, pipeVars, panicked, lastOp, pre,
                   inVars, paceVars, headerCalls>>

MpAddParam ==
    \E r \in RandTokens : MpCall(addParam(mp, r, KeyA, <<"x">>), {})
MpAddFileParam ==
    \E r \in RandTokens, s \in Sources :
        MpCall(addFileParam(mp, r, KeyB, [Name |-> <<"f">>, Data |-> s]), {})
MpClose ==
    \E r \in RandTokens : MpCall(close(mp, r), {})
\* contentType generates the boundary if there is none
MpContentType ==
    \E r \in RandTokens : MpCall(WithBoundary(mp, r), {contentType(mp, r)})

NextMultipart ==
    \/ MpAddParam
    \/ MpAddFileParam
    \/ MpClose
    \/ MpContentType

SpecMultipart == InitMultipart /\ [][NextMultipart]_vars

\* the readers of the list that hold a boundary line or the closing boundary
BoundaryReaders ==
    {i \in 1..Len(mp.readerlist) :
        /\ mp.readerlist[i].src = 0
        /\ mp.readerlist[i].data # << >>
        /\ mp.readerlist[i].data[1] = "--"}

\* C16: for one multipartRequestBody, under any sequence of addParam,
\* addFileParam, close and contentType calls, the boundary is generated at
\* most once, by the first call, and every boundary line, every closing
\* boundary and every content type reported carries that one boundary
C16_BoundaryGeneratedOnce ==
    /\ mpHist.generated = (IF mpHist.calls = 0 THEN 0 ELSE 1)
    /\ (mp.boundary = << >>) <=> (mpHist.calls = 0)
    /\ mp.boundary # << >> => mp.effBoundary = <<"--">> \o mp.boundary \o <<"--">>
    /\ \A i \in BoundaryReaders :
           mp.readerlist[i].data \in {<<"--">> \o mp.boundary,
                                      <<"--">> \o mp.boundary \o <<"--">>}
    /\ \A t \in mpHist.reported :
           t = <<"multipart/form-data; charset=utf-8; boundary=", Quote>>
                   \o mp.boundary \o <<Quote>>

\* the content type was asked for first, then a field and a file were added
\* and the body was closed
C16_Witness ==
    /\ mpHist.calls = 4
    /\ mpHist.reported # {}
    /\ Len(mp.readerlist) = 9
    /\ Cardinality(BoundaryReaders) = 3
    /\ mp.readerlist[9].data = mp.effBoundary

----------------------------------------------------------------------------
(* Claims on unsupported values, under SpecArg *)

----------------------------------------------------------------------------
(* SpecFrame: every builder operation and DebugPrint, in any order, on one  *)
(* request, which is then dispatched                                        *)

\* the size of a request: the values in its buckets, its attachments,
\* headers, cookies and decoders, and its path, credentials and multipart flag
\* when they are set
MaxFrameOps == 2

FrameSize ==
    Count(QueryParams) + Count(FormParams) + Count(AutoParams) + Count(FormFiles)
        + Cardinality(DOMAIN Headers) + Len(Cookies) + Len(Response)
        + (IF URLPath = <<"/", "u">> THEN 1 ELSE 0)
        + (IF BasicUser # << >> THEN 1 ELSE 0)
        + (IF ForceMultipart THEN 1 ELSE 0)

FrameBudget == FrameSize < MaxFrameOps

FrameKeys == {KeyA, KeyB}

\* a present value and an absent one
FrameValues == {Val("int", 3), NilValue}

FramePaths == {<<"/", "t">>, <<"/", "u">>}
FrameVerbs == {"GET", "POST"}
FrameHeaderKey == <<"X", "-", "I", "d">>
FrameCookie == <<"c", "=", "1">>

InitFrame ==
    /\ NewRequest
    /\ NoCall
    /\ NoPace
    /\ NoMultipart
    /\ LastChance = "nil"
    /\ AgentName = << >>
    /\ inKey = KeyA
    /\ inVal = NilValue
    /\ inDef = NilValue

FrmPath    == FrameBudget /\ \E p \in FramePaths : Path(p)
FrmMethod  == \E v \in FrameVerbs : Method(v)
FrmArg     == FrameBudget /\ \E k \in FrameKeys, v \in FrameValues : Arg(k, v)
FrmURLArg  == FrameBudget /\ \E k \in FrameKeys, v \in FrameValues : URLArg(k, v)
FrmFormArg == FrameBudget /\ \E k \in FrameKeys, v \in FrameValues : FormArg(k, v)
FrmFileArg ==
    FrameBudget /\ \E k \in FrameKeys, s \in Sources : FileArg(k, <<"f">>, s)
FrmHeader  ==
    /\ FrameBudget
    /\ ToLower(FrameHeaderKey) \notin DOMAIN Headers
    /\ Header(FrameHeaderKey, <<"1">>)
FrmCookie  == FrameBudget /\ Cookie(FrameCookie)
FrmBasicAuthentication == FrameBudget /\ BasicAuthentication(<<"u">>, <<"p">>)
FrmMultipart  == FrameBudget /\ Multipart
FrmInto       == FrameBudget /\ JSONInto
FrmDebugPrint == \E c \in BodyChoices : DebugPrint(c)
FrmRequestDo  == \E c \in BodyChoices : RequestDo("nil", c)
FrmReturn     ==
    \E o \in Orders(DOMAIN FormFiles) :
        ReqtifierDoReturn(Answer(TRUE, JsonBody, "nil", "nil"), o)

NextFrame ==
    \/ FrmPath
    \/ FrmMethod
    \/ FrmArg
    \/ FrmURLArg
    \/ FrmFormArg
    \/ FrmFileArg
    \/ FrmHeader
    \/ FrmCookie
    \/ FrmBasicAuthentication
    \/ FrmMultipart
    \/ FrmInto
    \/ FrmDebugPrint
    \/ FrmRequestDo
    \/ FrmReturn

SpecFrame == InitFrame /\ [][NextFrame]_vars

----------------------------------------------------------------------------
(* Claims on the builder operations, under SpecFrame *)

\* after is before with x appended at the end of the sequence of key, and
\* nothing else changed
OnlyAppended(before, after, key, x) ==
    /\ DOMAIN after = DOMAIN before \cup {key}
    /\ after[key] = (IF key \in DOMAIN before THEN before[key] ELSE << >>) \o <<x>>
    /\ \A j \in DOMAIN before \ {key} : after[j] = before[j]

\* what an argument operation does to its own bucket
ArgEffect(before, after, key, value) ==
    IF stringify(value).present
    THEN OnlyAppended(before, after, key, stringify(value).str)
    ELSE after = before

\* the parts of a request that are neither buckets nor attachments
restVars ==
    <<URLPath, Verb, Headers, BasicUser, BasicPassword, Cookies, ForceMultipart,
      Response, body>>

\* C22: each builder operation changes only its own part of the request: Arg
\* appends one value at the end of the key's sequence in the auto bucket only,
\* URLArg in the query bucket only, FormArg in the form bucket only, and none
\* of them changes anything when the value is absent; FileArg appends only to
\* the attachment list of its key; Header, Cookie, BasicAuthentication,
\* Multipart, Method, Path and Into leave the buckets, the attachments and the
\* cached body unchanged
C22_BuilderFrames ==
    [][/\ \A k \in FrameKeys, v \in FrameValues :
            /\ Arg(k, v) =>
                  /\ ArgEffect(AutoParams, AutoParams', k, v)
                  /\ UNCHANGED <<QueryParams, FormParams, FormFiles, restVars>>
            /\ URLArg(k, v) =>
                  /\ ArgEffect(QueryParams, QueryParams', k, v)
                  /\ UNCHANGED <<AutoParams, FormParams, FormFiles, restVars>>
            /\ FormArg(k, v) =>
                  /\ ArgEffect(FormParams, FormParams', k, v)
                  /\ UNCHANGED <<AutoParams, QueryParams, FormFiles, restVars>>
       /\ \A k \in FrameKeys, s \in Sources :
            FileArg(k, <<"f">>, s) =>
                  /\ OnlyAppended(FormFiles, FormFiles', k,
                                  [Name |-> <<"f">>, Data |-> s])
                  /\ UNCHANGED <<bucketVars, restVars>>
       /\ (FrmHeader \/ FrmCookie \/ FrmBasicAuthentication \/ FrmMultipart
              \/ FrmMethod \/ FrmPath \/ FrmInto) =>
                  UNCHANGED <<bucketVars, FormFiles, body>>
      ]_vars

\* a body was cached while the auto bucket was empty or the verb GET, and a
\* builder operation acted afterwards: the request is a POST with a value in
\* the auto bucket that the cached bytes do not hold
C22_Witness ==
    /\ body.cached
    /\ Count(FormParams) = 1
    /\ body.body = Encode(FormParams)
    /\ Verb = "POST"
    /\ lastOp = "Arg"
    /\ Count(AutoParams) = 1

----------------------------------------------------------------------------
(* Claims on the urlencoded body and the URL, under SpecBuild *)

\* the keys of a sequence of key/value pairs, and the values of one key in
\* their order
KeysOf(pairs) == {pairs[i][1] : i \in 1..Len(pairs)}

ValuesOf(pairs, key) ==
    LET sel == SelectSeq(pairs, LAMBDA p : p[1] = key)
    IN  [i \in 1..Len(sel) |-> sel[i][2]]

\* the values of key in the bucket first followed by those in the bucket second
Merged(first, second, key) ==
    (IF key \in DOMAIN first THEN first[key] ELSE << >>)
        \o (IF key \in DOMAIN second THEN second[key] ELSE << >>)

\* the pairs decode to exactly the two buckets merged key by key
DecodesTo(pairs, first, second) ==
    /\ KeysOf(pairs) = DOMAIN first \cup DOMAIN second
    /\ \A k \in KeysOf(pairs) : ValuesOf(pairs, k) = Merged(first, second, k)

\* C23: for a request that is not a GET, on the urlencoded branch, the body of
\* GetBody() decodes (url.ParseQuery) to, for every key, the form-bucket values
\* of the key in insertion order followed by its auto-bucket values in
\* insertion order, and nothing else; the URL of a GET request decodes likewise
\* to the query bucket followed by the auto bucket; when both merged buckets
\* are empty the body is empty and the URL has no "?"
C23_UrlencodedRoundTrip ==
    /\ (Verb # "GET" /\ ~ForceMultipart /\ DOMAIN FormFiles = {} /\ ~body.cached) =>
          \A c \in BodyChoices :
              LET g == GetBody(c)
              IN  /\ g.reader.kind = "bytes"
                  /\ g.mimetype = FormURLEncoded
                  /\ DecodesTo(ParseQuery(g.reader.data), FormParams, AutoParams)
                  /\ (DOMAIN FormParams \cup DOMAIN AutoParams = {}) =>
                         g.reader.data = << >>
    /\ Verb = "GET" =>
          /\ DecodesTo(ParseQuery(QueryOf(URL)), QueryParams, AutoParams)
          /\ (DOMAIN QueryParams \cup DOMAIN AutoParams = {}) => "?" \notin Range(URL)

\* a POST request holds y& under a key in the auto bucket and x under the same
\* key in the form bucket, and its body is urlencoded
C23_Witness ==
    /\ Verb = "POST"
    /\ ~ForceMultipart
    /\ DOMAIN FormFiles = {}
    /\ KeyA \in DOMAIN FormParams /\ FormParams[KeyA] = << <<"x">> >>
    /\ KeyA \in DOMAIN AutoParams /\ AutoParams[KeyA] = << <<"y", "&">> >>

----------------------------------------------------------------------------
(* Claims on DebugPrint, under SpecFrame *)

\* the step of DebugPrint that caches the body
Caches == ~body.cached /\ body'.cached

\* the content type of a multipart body with the random letters r
MultipartType(r) ==
    <<"multipart/form-data; charset=utf-8; boundary=", Quote, "----multipart", r,
      Quote>>

\* C24: DebugPrint switches the request into cached-body mode for good: once a
\* body is cached, no later step clears or changes it (a second DebugPrint
\* included) and no later step reads an attachment source; the bytes and the
\* content type cached are what GetBody() produces at that moment, for
\* multipart with the boundary of the content type on every boundary line of
\* the bytes; the sources attached are each read to their end by that
\* DebugPrint, their data once in the cached bytes; and a later Do of a request
\* that is not a GET sends the cached bytes
C24_DebugPrintOneWay ==
    [][/\ body.cached => (body' = body /\ drained' = drained)
       /\ Caches =>
            /\ ~body'.isnil
            /\ \E c \in BodyChoices :
                   /\ body'.mimetype = GetBody(c).mimetype
                   /\ body'.body = ReadAll(GetBody(c).reader, drained).bytes
            /\ IF ForceMultipart \/ DOMAIN FormFiles # {}
               THEN \E r \in RandTokens :
                        /\ body'.mimetype = MultipartType(r)
                        /\ Len(Delimiters(body'.body)) > 0
                        /\ \A i \in Range(Delimiters(body'.body)) :
                               body'.body[i + 2] = r
               ELSE body'.mimetype = FormURLEncoded
            /\ drained = {}
            /\ drained' = Attached
            /\ \A s \in Attached : Occurrences(body'.body, SourceData(s)) = 1
       /\ (body.cached /\ ~msg.sent /\ msg'.sent /\ Verb # "GET") =>
            /\ msg'.hasBody
            /\ msg'.Body = body.body
      ]_vars

\* a POST request with an attachment was dispatched after DebugPrint: the
\* transport received the cached bytes, which hold the data of the attachment
C24_Witness ==
    /\ body.cached
    /\ Verb = "POST"
    /\ Attached # {}
    /\ drained = Attached
    /\ msg.sent
    /\ msg.Body = body.body
    /\ \A s \in Attached : Occurrences(body.body, SourceData(s)) = 1

----------------------------------------------------------------------------
(* SpecExamine: Do calls on a client without RateLimiter and hook whose      *)
(* transport is the double: without an analyzer, or in Examine mode with an *)
(* observer that receives a request and then answers it, again and again,   *)
(* or in Examine mode with nobody receiving from Requests (the observer's   *)
(* position is then "gone").  A goroutine that can take a step takes it     *)
(* eventually; a channel operation is a step of both its goroutines.        *)

Observers ==
    {NoExaminer,
     [NoExaminer EXCEPT !.set = TRUE],
     [NoExaminer EXCEPT !.set = TRUE, !.pc = "gone"]}

InitExamine ==
    /\ NewRequest
    /\ NoCall
    /\ NoMultipart
    /\ LastChance = "nil"
    /\ AgentName \in {<< >>, <<"t">>}
    /\ inKey = KeyA
    /\ inVal = NilValue
    /\ inDef = NilValue
    /\ calls = [c \in Callers |-> NewCall]
    /\ ticker = NoTicker
    /\ examiner \in Observers

ExmAgent     == \E c \in Callers : CallAgent(c)
ExmHook      == \E c \in Callers : CallHook(c, "nil")
ExmGate      == \E c \in Callers : CallGate(c)
ExmBuild     == \E c \in Callers, choice \in BodyChoices : CallBuild(c, choice)
ExmSend      == \E c \in Callers : CallSend(c)
ExmReceive   ==
    \E c \in Callers, e \in {"nil", "connection refused"} : CallReceive(c, e)
ExmNoHandler == \E c \in Callers : CallNoHandler(c)

NextExamine ==
    \/ ExmAgent
    \/ ExmHook
    \/ ExmGate
    \/ ExmBuild
    \/ ExmSend
    \/ ExmReceive
    \/ ExmNoHandler

SpecExamine ==
    /\ InitExamine
    /\ [][NextExamine]_vars
    /\ WF_vars(ExmAgent)
    /\ WF_vars(ExmHook)
    /\ WF_vars(ExmGate)
    /\ WF_vars(ExmBuild)
    /\ WF_vars(ExmSend)
    /\ WF_vars(ExmReceive)
    /\ WF_vars(ExmNoHandler)

----------------------------------------------------------------------------
(* Claims on the transport double, under SpecExamine *)

Returned(c) == calls[c].ret.returned

\* the observer received the request of call c and sent the answer the call
\* returned
Answered(c) ==
    /\ \E i \in 1..Len(examiner.requests) : examiner.requests[i] = c
    /\ \E i \in 1..Len(examiner.answers) :
           /\ examiner.answers[i].request = c
           /\ examiner.answers[i].answer = calls[c].answer

\* C25: in Examine mode a Do call does not return before the observer has
\* received its request and sent an answer; with an observer that keeps
\* receiving and answering every Do call returns eventually; with nobody
\* receiving, a Do call never returns and stays in its send; without an
\* analyzer, Do returns (nil, ErrNoHandler) in its one transport step
C25_ExamineRendezvous ==
    /\ [](\A c \in Callers :
             /\ (examiner.set /\ Returned(c)) => Answered(c)
             /\ (examiner.pc = "gone") => ~Returned(c)
             /\ (~examiner.set /\ Returned(c)) =>
                    calls[c].ret = Return(FALSE, << >>, ErrNoHandler))
    /\ [][\A c \in Callers :
             (~examiner.set /\ calls[c].pc = "send" /\ calls'[c] # calls[c]) =>
                 /\ calls'[c].pc = "returned"
                 /\ examiner' = examiner]_vars
    /\ \A c \in Callers :
           /\ (examiner.pc # "gone") ~> Returned(c)
           /\ (examiner.pc = "gone") ~> [](calls[c].pc = "send")

\* one call returned what the observer answered while another call, whose
\* request the observer has received, waits for its answer
C25_Witness ==
    /\ examiner.set
    /\ Returned(1) /\ Answered(1)
    /\ calls[2].pc = "await"
    /\ examiner.request = 2

====
